---- MODULE Spec2Model ----
(***************************************************************************)
(* A model of the gioc container (src/gioc.go and its helper files): the   *)
(* singleton store filled by IOC with double-checked locking, the scope    *)
(* contexts of BeginScope / WithScope, the per-goroutine resolution paths  *)
(* of the cycle detector, ClearInstances and the finalizer hook.           *)
(*                                                                         *)
(* Every goroutine is a call stack of frames.  One action is one critical  *)
(* section of the code (the lines between taking and releasing a lock), so *)
(* that the goroutines interleave exactly where the code lets them.        *)
(***************************************************************************)
EXTENDS Integers, Sequences, FiniteSets, TLC

(* ------------------------------ bounds --------------------------------- *)

\* goroutines calling into the container
NumThreads == 2
\* calls of IOC made by the callers (the calls made by factories are not counted)
MaxResolves == 2
\* calls of InjectConstructor
MaxInjects == 1
MaxRegisters == 3        \* calls of RegisterType between two resets
MaxQueries == 1          \* calls of GetType and TypeCount a goroutine makes
\* calls of IOC made by the callers that resolve again after a failure or a reset
MaxRetries == 3
\* scope contexts created (BeginScope and WithScope together)
MaxScopes == 2
\* invocations of the cleanup functions returned by BeginScope
MaxCleanups == 2
\* calls of ClearInstances
MaxClears == 1
\* IOC calls on the call stack of a goroutine (a factory that resolves itself as
\* Transient recurses without end once ClearInstances has dropped the paths)
MaxDepth == 7

(* --------------------------- program constants ------------------------- *)

Singleton == 0
Transient == 1
Scoped == 2

\* the nil scope context pointer, the missing map entry
Nil == 0

Threads == 1..NumThreads
Keys == {"A", "B", "C"}
Lifetimes == {Singleton, Transient, Scoped}

(* ------------------------- the client programs ------------------------- *)
(* The factories the callers pass to IOC.  A factory is a list of the IOC  *)
(* calls it makes before it builds its instance.                           *)
(*   cycle:   A resolves B, B resolves A; C resolves itself                *)
(*   diamond: A resolves B and C, B resolves C, C is a leaf that may panic *)
(*   scopes:  A is a leaf that may panic; the callers resolve A and use    *)
(*            scopes                                                       *)
(*   misuse:  A resolves itself as Transient, B is a leaf; test code       *)
(*            overwrites slots of the store with an instance of another    *)
(*            type                                                         *)
(*   retry:   A resolves B, B is a leaf that may panic; the callers resolve *)
(*            A again after a failure                                      *)
(*   links:   A resolves B as Transient, B resolves C as Transient, C      *)
(*            resolves A; one goroutine, with scopes                       *)
(*   literals: the cycle detection example: three function literals, the   *)
(*            first and the third build the same type; one goroutine       *)
(*   direct:  A is a leaf; one goroutine calls IOC and DirectIOC, with     *)
(*            scopes, and CompactMaps                                      *)
(*   reuse:   A is a leaf; one goroutine calls IOC, DirectIOC and          *)
(*            ClearInstances, without scopes, three times                  *)
(*   inject:  A and B are leaves, the database and the logger of the       *)
(*            constructor injection tests; the callers resolve them and    *)
(*            call InjectConstructor (checked on its own, see InjectSpec)  *)

Worlds == {"cycle", "diamond", "scopes", "misuse", "retry", "links", "literals",
           "direct", "reuse"}

Dep(k, lt) == [key |-> k, lt |-> lt]

Deps(w, k) ==
    IF w = "cycle"
    THEN CASE k = "A" -> <<Dep("B", Singleton)>>
           [] k = "B" -> <<Dep("A", Singleton)>>
           [] OTHER   -> <<Dep("C", Singleton)>>
    ELSE IF w = "diamond"
    THEN CASE k = "A" -> <<Dep("B", Singleton), Dep("C", Singleton)>>
           [] k = "B" -> <<Dep("C", Singleton)>>
           [] OTHER   -> <<>>
    ELSE IF w = "misuse"
    THEN CASE k = "A" -> <<Dep("A", Transient)>>
           [] OTHER   -> <<>>
    ELSE IF w = "retry"
    THEN CASE k = "A" -> <<Dep("B", Singleton)>>
           [] OTHER   -> <<>>
    ELSE IF w = "links"
    THEN CASE k = "A" -> <<Dep("B", Transient)>>
           [] k = "B" -> <<Dep("C", Transient)>>
           [] OTHER   -> <<Dep("A", Singleton)>>
    ELSE IF w = "literals"
    THEN CASE k = "A" -> <<Dep("B", Singleton)>>
           [] k = "B" -> <<Dep("C", Transient)>>
           [] OTHER   -> <<>>
    ELSE <<>>

MayPanic(w) ==
    IF w = "diamond" THEN {"C"}
    ELSE IF w = "scopes" THEN {"A"}
    ELSE IF w = "retry" THEN {"B"}
    ELSE {}

\* the factories the callers pass to IOC themselves
Roots(w) ==
    IF w = "cycle" THEN {"A", "C"}
    ELSE IF w \in {"misuse", "inject"} THEN {"A", "B"}
    ELSE {"A"}

\* the lifetimes the callers pass to IOC themselves
RootLifetimes(w) ==
    IF w = "scopes" THEN Lifetimes
    ELSE IF w \in {"misuse", "retry", "literals", "reuse", "inject", "registry"} THEN {Singleton}
    ELSE IF w \in {"links", "direct"} THEN {Singleton, Scoped}
    ELSE {Singleton, Transient}

\* the client programs that call BeginScope, the cleanup functions and WithScope
UsesScopes(w) == w \in {"scopes", "links", "direct"}

\* the goroutines of the client program
Callers(w) == IF w \in {"links", "literals", "direct", "reuse"} THEN {1} ELSE Threads

\* the client programs that call DirectIOC, GetInstanceCount and CompactMaps
UsesDirect(w) == w \in {"direct", "reuse"}

\* the client programs that call ClearInstances
UsesClear(w) == w # "retry"

\* the calls of IOC the callers of the client program make
ResolveBound(w) == IF w \in {"retry", "reuse"} THEN MaxRetries ELSE MaxResolves

\* the keys whose slot the test code overwrites with a *DifferentStruct
Mismatched(w) == IF w = "misuse" THEN {"A", "B"} ELSE {}

\* the programs in which a factory reaches its own key again
Cyclic(w) == w \in {"cycle", "misuse", "links"}

\* reflect.TypeOf(instance) of what the factory of k builds: the type parameter T
\* of the call IOC(fn) for the factory of k
TypeOf(k) == "*" \o k

VARIABLES
    world,               \* the client program
    instances,           \* instances[fnPtr]: the singleton store
    types,               \* types[fnPtr]
    scopes,              \* scopes[fnPtr]
    finalizers,          \* the finalizers set by runtime.SetFinalizer: <<fnPtr, instance>>
    currentScopeContext, \* the active scope context (Nil: none)
    scopeCounter,        \* scopeCounter of NewScopeContext
    ctxInstances,        \* ctxInstances[c]: the instances map of scope context c
    previousScope,       \* previousScope[c]: the variable captured by the cleanup of c
    handles,             \* the cleanup functions handed to callers by BeginScope
    resolutionPathMap,   \* resolutionPathMap[gid]
    stack,               \* stack[t]: the call stack of goroutine t
    ret,                 \* ret[t]: what the IOC calls of the caller t produced, oldest first
    ciLock,              \* the goroutine inside ClearInstances (it holds mu and scopeContextMutex)
    nextInst,            \* nextInst[t]: how many instances the factories run by t have built
    resolves,            \* calls of IOC made by the callers so far
    cleanups,            \* invocations of cleanup functions so far
    resets,              \* calls of ClearInstances so far
    invocations,         \* invocations[k]: Singleton runs of factory k since the last reset
    ctxGen,              \* ctxGen[c]: how often the instances map of context c was cleared
    resetMark,           \* scopeCounter at the last ClearInstances
    ended,               \* the contexts whose cleanup function has been invoked
    lstack,              \* lstack[t]: the operations goroutine t is inside of, lock by lock
    lockW,               \* lockW[l]: the goroutine that holds lock l for writing
    lockP,               \* lockP[l]: the goroutine whose Lock() of l waits for the readers
    lockR,               \* lockR[l]: the goroutines that hold lock l for reading
    lops,                \* lops[t]: the operations goroutine t has called, lock by lock
    directInstances,     \* directInstances[key]: the registry of RegisterType
    registered           \* the instances passed to RegisterType since the last reset

\* the container and its callers, one step per critical section
mainvars == <<world, instances, types, scopes, finalizers, currentScopeContext,
              scopeCounter, ctxInstances, previousScope, handles, resolutionPathMap,
              stack, ret, ciLock, nextInst, resolves, cleanups, resets, invocations,
              ctxGen, resetMark, ended>>

\* the locks of the container and where each goroutine is between them
lockvars == <<lstack, lockW, lockP, lockR, lops>>

\* the registry of RegisterType, GetType and TypeCount
regvars == <<directInstances, registered>>

vars == <<mainvars, lockvars, regvars>>

(* ------------------------------ helpers -------------------------------- *)

\* Go maps: functions whose domain is the set of keys present
EmptyMap == << >>
Has(m, k) == k \in DOMAIN m
Put(m, k, v) == [x \in (DOMAIN m) \cup {k} |-> IF x = k THEN v ELSE m[x]]
Del(m, k) == [x \in (DOMAIN m) \ {k} |-> m[x]]

Top(s) == s[Len(s)]
Front(s) == SubSeq(s, 1, Len(s) - 1)
ReplaceTop(s, f) == [s EXCEPT ![Len(s)] = f]

InSeq(x, s) == \E i \in 1..Len(s) : s[i] = x

\* the instances are named by the goroutine whose factory call built them and a
\* number; NoInst stands for the value of a variable not assigned yet
NoInst == <<0, 0>>
NewInst(t) == <<t, nextInst[t] + 1>>

\* the instance built by differentFn() of the test code, not by a factory
DifferentInstance == <<0, 1>>

\* the dynamic type of instance i found under key k
TypeOfInstance(i, k) == IF i = DifferentInstance THEN "*DifferentStruct" ELSE TypeOf(k)

\* a type assertion that accepts every instance
TypeAssert_Unchecked(i, k) == TRUE

\* typed, ok := instance.(T), for the call IOC[T] with the factory of k
TypeAssert(i, k) == TypeOfInstance(i, k) = TypeOf(k)

\* the message of the type assertion panics, without the values it formats
AssertMsg(place) == "type assertion failed in " \o place

\* the result of an IOC call of a caller: a value or a recovered panic.
\*   ctx, gen: the scope context a Scoped call used and how often it had been cleared
\*   r0:       the number of resets when the call was made
\*   quiet:    no ClearInstances ran between the call and its result
\*   p0:       the path entry of the goroutine was empty when the call was made
\*   at:       the key whose IOC call raised the panic
\*   trace:    what the panic message lists: the rendered cycle path, or the
\*             expected and the actual type
\*   own:      the scope context of the WithScope whose body made the call
\*   direct:   the call was a call of DirectIOC
NoRet == [kind |-> "none", key |-> "", lt |-> Singleton, inst |-> NoInst, ctx |-> Nil,
          gen |-> 0, r0 |-> 0, quiet |-> TRUE, p0 |-> TRUE, msg |-> "", at |-> "",
          trace |-> <<>>, own |-> Nil, direct |-> FALSE]

Frame(op, k, lt, pc) ==
    [op |-> op, key |-> k, lt |-> lt, pc |-> pc, currentPath |-> <<>>,
     scopeCtx |-> Nil, instance |-> NoInst, dep |-> 1, r0 |-> resets, p0 |-> TRUE,
     pend |-> FALSE, own |-> Nil, direct |-> FALSE]

\* the scope context of the WithScope whose body goroutine t is running
OwnScope(t) ==
    IF stack[t] = <<>> THEN Nil
    ELSE IF Top(stack[t]).op = "WithScope" THEN Top(stack[t]).scopeCtx
    ELSE Top(stack[t]).own

\* the code that called the container: test code, or the body of a WithScope
CallerCtx(t) ==
    /\ t \in Callers(world)
    /\ IF stack[t] = <<>> THEN TRUE
       ELSE Top(stack[t]).op = "WithScope" /\ Top(stack[t]).pc = "body"

At(t, op, pc) ==
    /\ stack[t] # <<>>
    /\ Top(stack[t]).op = op
    /\ Top(stack[t]).pc = pc

\* mu and scopeContextMutex are free (ClearInstances holds them across two steps;
\* every other critical section is one step)
LocksFree == ciLock = Nil

(* ------------------------- resolution paths ---------------------------- *)

\* one id for every goroutine: one path shared by all of them
getGoroutineID_Shared(t) == 1

\* the goroutine id parsed from the stack trace
getGoroutineID(t) == t

\* a goroutine without an entry gets an empty path stored and returned, so a
\* missing entry and an empty path are one value here
getCurrentResolutionPath(t) == resolutionPathMap[getGoroutineID(t)]

updateResolutionPath(t, path) ==
    resolutionPathMap' = [resolutionPathMap EXCEPT ![getGoroutineID(t)] = path]

clearAllResolutionPaths == resolutionPathMap' = [g \in Threads |-> <<>>]

\* a cycle check that looks at the calling factory only
checkForCycle_CallerOnly(t, key) ==
    /\ stack[t] # <<>>
    /\ Top(stack[t]).op = "IOC"
    /\ Top(stack[t]).key = key

\* a cycle check that never finds the key
checkForCycle_Never(t, key) == FALSE

checkForCycle(t, key) == InSeq(key, getCurrentResolutionPath(t))

\* the index of the first element of the path equal to its last element
CycleStart(path) ==
    CHOOSE i \in 1..Len(path) :
        /\ path[i] = path[Len(path)]
        /\ \A j \in 1..(i - 1) : path[j] # path[Len(path)]

getCyclePath(path, tys) ==
    IF Len(path) = 0
    THEN <<"empty path">>
    ELSE [i \in 1..(Len(path) - CycleStart(path) + 1) |->
            LET key == path[CycleStart(path) + i - 1]
            IN  IF Has(tys, key) THEN tys[key] ELSE "unknown(" \o key \o ")"]

(* --------------------------- return and panic -------------------------- *)

\* the IOC frames on top of the stack are popped by a panic: none of them has a
\* deferred call at the places where a panic can pass through it
RECURSIVE StripIOC(_)
StripIOC(s) ==
    IF s = <<>> \/ Top(s).op # "IOC" THEN s ELSE StripIOC(Front(s))

\* the IOC call returns v: to the factory that made the call, or to the caller
ReturnTo(t, v) ==
    LET s == stack[t]
        f == Top(s)
        rest == Front(s)
    IN  IF rest # <<>> /\ Top(rest).op = "IOC"
        THEN /\ stack' = [stack EXCEPT ![t] =
                            ReplaceTop(rest, [Top(rest) EXCEPT !.dep = @ + 1])]
             /\ ret' = ret
        ELSE /\ stack' = [stack EXCEPT ![t] = rest]
             /\ ret' = [ret EXCEPT ![t] = Append(@,
                          [NoRet EXCEPT !.kind = "value", !.key = f.key, !.lt = f.lt,
                                        !.inst = v, !.ctx = f.scopeCtx,
                                        !.gen = IF f.scopeCtx = Nil THEN 0
                                                ELSE ctxGen[f.scopeCtx],
                                        !.r0 = f.r0, !.quiet = (f.r0 = resets),
                                        !.p0 = f.p0, !.own = f.own,
                                        !.direct = f.direct])]

\* a panic leaves every IOC call on the stack; a WithScope below them runs its
\* deferred cleanup before the panic goes on; the caller at the bottom recovers
PanicWith(t, msg, trace) ==
    LET s == stack[t]
        base == StripIOC(s)
        outer == s[Len(base) + 1]
    IN  /\ stack' = [stack EXCEPT ![t] =
                       IF base = <<>> THEN <<>>
                       ELSE ReplaceTop(base, [Top(base) EXCEPT !.pc = "cleanup",
                                                               !.pend = TRUE])]
        /\ ret' = [ret EXCEPT ![t] = Append(@,
                     [NoRet EXCEPT !.kind = "panic", !.key = outer.key, !.lt = outer.lt,
                                   !.r0 = outer.r0, !.quiet = (outer.r0 = resets),
                                   !.p0 = outer.p0, !.own = outer.own,
                                   !.direct = outer.direct,
                                   !.msg = msg, !.at = Top(s).key, !.trace = trace])]

(* --------------------------------- IOC --------------------------------- *)

\* an IOC that returns fn() for Transient before it checks for a cycle
EnterPc_TransientFirst(t, k, lt) ==
    IF lt = Transient THEN "fn"
    ELSE IF checkForCycle(t, k) THEN "cyclepath"
    ELSE IF lt = Scoped THEN "getscope"
    ELSE "read"

\* an IOC that looks a Singleton key up in the store before it checks for a cycle
EnterPc_ReadFirst(t, k, lt) ==
    IF lt = Singleton /\ Has(instances, k) THEN "read"
    ELSE IF checkForCycle(t, k) THEN "cyclepath"
    ELSE IF lt = Transient THEN "fn"
    ELSE IF lt = Scoped THEN "getscope"
    ELSE "read"

\* IOC up to the lifetime dispatch: checkForCycle, then the branch taken
EnterPc(t, k, lt) ==
    IF checkForCycle(t, k) THEN "cyclepath"
    ELSE IF lt = Transient THEN "fn"
    ELSE IF lt = Scoped THEN "getscope"
    ELSE "read"

EnterIOC(t, k, lt) ==
    [Frame("IOC", k, lt, EnterPc(t, k, lt)) EXCEPT
        !.p0 = (resolutionPathMap[t] = <<>>),
        !.own = OwnScope(t)]

\* a caller calls IOC(fn, lt)
CallIOC(t, k, lt) ==
    /\ resolves < ResolveBound(world)
    /\ CallerCtx(t)
    /\ k \in Roots(world)
    /\ lt \in RootLifetimes(world)
    /\ resolves' = resolves + 1
    /\ stack' = [stack EXCEPT ![t] = Append(@, EnterIOC(t, k, lt))]
    /\ ret' = ret
    /\ UNCHANGED <<lockvars, regvars, world, instances, types, scopes, finalizers, currentScopeContext,
                   scopeCounter, ctxInstances, previousScope, handles,
                   resolutionPathMap, ciLock, nextInst, resets, invocations, cleanups,
                   ctxGen, resetMark, ended>>

\* DirectIOC up to the lookup: checkForCycle, then Transient or the singleton
\* store, whatever the lifetime
DirectEnterPc(t, k, lt) ==
    IF checkForCycle(t, k) THEN "cyclepath"
    ELSE IF lt = Transient THEN "fn"
    ELSE "read"

\* a caller calls DirectIOC(fn, lt); from the lookup on DirectIOC goes the way of
\* a Singleton call of IOC, up to the points where the frame is marked direct
CallDirectIOC(t, k, lt) ==
    /\ UsesDirect(world)
    /\ resolves < ResolveBound(world)
    /\ CallerCtx(t)
    /\ k \in Roots(world)
    /\ lt \in RootLifetimes(world)
    /\ resolves' = resolves + 1
    /\ stack' = [stack EXCEPT ![t] =
                    Append(@, [Frame("IOC", k, lt, DirectEnterPc(t, k, lt)) EXCEPT
                                  !.p0 = (resolutionPathMap[t] = <<>>),
                                  !.own = OwnScope(t),
                                  !.direct = TRUE])]
    /\ ret' = ret
    /\ UNCHANGED <<lockvars, regvars, world, instances, types, scopes, finalizers, currentScopeContext,
                   scopeCounter, ctxInstances, previousScope, handles,
                   resolutionPathMap, ciLock, nextInst, resets, invocations, cleanups,
                   ctxGen, resetMark, ended>>

\* getCyclePath reads the path of the goroutine
IOCCyclePath(t) ==
    /\ At(t, "IOC", "cyclepath")
    /\ stack' = [stack EXCEPT ![t] =
                   ReplaceTop(@, [Top(@) EXCEPT !.currentPath = getCurrentResolutionPath(t),
                                               !.pc = "cyclerender"])]
    /\ UNCHANGED <<lockvars, regvars, world, instances, types, scopes, finalizers, currentScopeContext,
                   scopeCounter, ctxInstances, previousScope, handles,
                   resolutionPathMap, ret, ciLock, nextInst, resolves, cleanups, resets,
                   invocations, ctxGen, resetMark, ended>>

\* getCyclePath renders the path with the types map, and IOC panics
IOCCycleRender(t) ==
    /\ At(t, "IOC", "cyclerender")
    /\ Top(stack[t]).currentPath = <<>> \/ LocksFree
    /\ PanicWith(t, "circular dependency detected",
                 getCyclePath(Top(stack[t]).currentPath, types))
    /\ UNCHANGED <<lockvars, regvars, world, instances, types, scopes, finalizers, currentScopeContext,
                   scopeCounter, ctxInstances, previousScope, handles,
                   resolutionPathMap, ciLock, nextInst, resolves, cleanups, resets,
                   invocations, ctxGen, resetMark, ended>>

\* the read-locked lookup in the singleton store
IOCRead(t) ==
    /\ At(t, "IOC", "read")
    /\ LocksFree
    /\ LET k == Top(stack[t]).key
       IN  IF Has(instances, k)
           THEN IF TypeAssert(instances[k], k)
                THEN ReturnTo(t, instances[k])
                ELSE PanicWith(t, AssertMsg(IF Top(stack[t]).direct THEN "DirectIOC"
                                            ELSE "singleton instance"),
                               <<TypeOf(k), TypeOfInstance(instances[k], k)>>)
           ELSE /\ stack' = [stack EXCEPT ![t] =
                               ReplaceTop(@, [Top(@) EXCEPT !.pc = "getpath"])]
                /\ ret' = ret
    /\ UNCHANGED <<lockvars, regvars, world, instances, types, scopes, finalizers, currentScopeContext,
                   scopeCounter, ctxInstances, previousScope, handles,
                   resolutionPathMap, ciLock, nextInst, resolves, cleanups, resets,
                   invocations, ctxGen, resetMark, ended>>

\* currentPath := getCurrentResolutionPath()
IOCGetPath(t) ==
    /\ At(t, "IOC", "getpath")
    /\ stack' = [stack EXCEPT ![t] =
                   ReplaceTop(@, [Top(@) EXCEPT !.currentPath = getCurrentResolutionPath(t),
                                               !.pc = "push"])]
    /\ UNCHANGED <<lockvars, regvars, world, instances, types, scopes, finalizers, currentScopeContext,
                   scopeCounter, ctxInstances, previousScope, handles,
                   resolutionPathMap, ret, ciLock, nextInst, resolves, cleanups, resets,
                   invocations, ctxGen, resetMark, ended>>

\* updateResolutionPath(newPath), and the factory is entered
IOCPush(t) ==
    /\ At(t, "IOC", "push")
    /\ LET f == Top(stack[t])
       IN  /\ updateResolutionPath(t, Append(f.currentPath, f.key))
           /\ stack' = [stack EXCEPT ![t] =
                          ReplaceTop(@, [f EXCEPT !.pc = "fn", !.dep = 1])]
           /\ invocations' = IF f.lt = Singleton
                             THEN [invocations EXCEPT ![f.key] = @ + 1]
                             ELSE invocations
    /\ UNCHANGED <<lockvars, regvars, world, instances, types, scopes, finalizers, currentScopeContext,
                   scopeCounter, ctxInstances, previousScope, handles, ret, ciLock,
                   nextInst, resets, resolves, cleanups, ctxGen, resetMark, ended>>

\* the factory makes its next IOC call
FnCall(t) ==
    /\ At(t, "IOC", "fn")
    /\ LET f == Top(stack[t])
           ds == Deps(world, f.key)
       IN  /\ f.dep <= Len(ds)
           /\ Len(stack[t]) - Len(StripIOC(stack[t])) < MaxDepth
           /\ stack' = [stack EXCEPT ![t] =
                          Append(@, EnterIOC(t, ds[f.dep].key, ds[f.dep].lt))]
    /\ UNCHANGED <<lockvars, regvars, world, instances, types, scopes, finalizers, currentScopeContext,
                   scopeCounter, ctxInstances, previousScope, handles,
                   resolutionPathMap, ret, ciLock, nextInst, resolves, cleanups, resets,
                   invocations, ctxGen, resetMark, ended>>

\* a Transient call that stores its result as a Singleton call does
ReturnsDirectly_ScopedOnly(f) == f.lt = Scoped /\ f.scopeCtx = Nil /\ ~f.direct

\* Transient, and Scoped of IOC without an active scope, return fn() as it is
ReturnsDirectly(f) == f.lt = Transient \/ (f.lt = Scoped /\ f.scopeCtx = Nil /\ ~f.direct)

\* the factory returns the instance it built
FnReturn(t) ==
    /\ At(t, "IOC", "fn")
    /\ LET f == Top(stack[t])
       IN  /\ f.dep > Len(Deps(world, f.key))
           /\ IF ReturnsDirectly(f)
              THEN ReturnTo(t, NewInst(t))
              ELSE /\ stack' = [stack EXCEPT ![t] =
                                  ReplaceTop(@, [f EXCEPT !.instance = NewInst(t),
                                                          !.pc = "pop"])]
                   /\ ret' = ret
    /\ nextInst' = [nextInst EXCEPT ![t] = @ + 1]
    /\ UNCHANGED <<lockvars, regvars, world, instances, types, scopes, finalizers, currentScopeContext,
                   scopeCounter, ctxInstances, previousScope, handles,
                   resolutionPathMap, ciLock, resets, invocations, resolves, cleanups,
                   ctxGen, resetMark, ended>>

\* the factory panics
FnPanic(t) ==
    /\ At(t, "IOC", "fn")
    /\ LET f == Top(stack[t])
       IN  /\ f.key \in MayPanic(world)
           /\ f.dep > Len(Deps(world, f.key))
    /\ PanicWith(t, "factory failed", <<>>)
    /\ UNCHANGED <<lockvars, regvars, world, instances, types, scopes, finalizers, currentScopeContext,
                   scopeCounter, ctxInstances, previousScope, handles,
                   resolutionPathMap, ciLock, nextInst, resolves, cleanups, resets,
                   invocations, ctxGen, resetMark, ended>>

\* an IOC that leaves the path as the factory left it
RestoredPath_Kept(t, f) == resolutionPathMap[getGoroutineID(t)]

\* the path IOC stores after fn() has returned: the one it read before the push
RestoredPath(t, f) == f.currentPath

\* a Scoped call that goes on to the singleton store after fn() has returned
AfterPopPc_Store(f) == "store"

\* where IOC goes on after fn() has returned: scopeCtx.Set inside the Scoped
\* branch, the write-locked double check of the singleton store otherwise
AfterPopPc(f) == IF f.lt = Scoped THEN "set" ELSE "store"

\* updateResolutionPath(currentPath) after fn() has returned; DirectIOC with
\* the Scoped lifetime returns the instance here ("only store if singleton")
IOCPop(t) ==
    /\ At(t, "IOC", "pop")
    /\ LET f == Top(stack[t])
       IN  /\ updateResolutionPath(t, RestoredPath(t, f))
           /\ IF f.direct /\ f.lt = Scoped
              THEN ReturnTo(t, f.instance)
              ELSE /\ stack' = [stack EXCEPT ![t] =
                                  ReplaceTop(@, [f EXCEPT !.pc = AfterPopPc(f)])]
                   /\ ret' = ret
    /\ UNCHANGED <<lockvars, regvars, world, instances, types, scopes, finalizers, currentScopeContext,
                   scopeCounter, ctxInstances, previousScope, handles, ciLock,
                   nextInst, resolves, cleanups, resets, invocations, ctxGen, resetMark,
                   ended>>

\* the value the write-locked double check returns
StoreResult(k, mine) == IF Has(instances, k) THEN instances[k] ELSE mine

\* the singleton store after the write-locked double check
StoreInstances(k, mine) == IF Has(instances, k) THEN instances ELSE Put(instances, k, mine)

\* a store that records no type for the key
StoreTypes_Skipped(k) == types

\* the type map after the store: the type is recorded unless the key has one
StoreTypes(k) == IF Has(types, k) THEN types ELSE Put(types, k, TypeOf(k))

\* the double check under the write lock, the store and the finalizer (DirectIOC
\* sets no finalizer)
IOCStore(t) ==
    /\ At(t, "IOC", "store")
    /\ LocksFree
    /\ LET f == Top(stack[t])
           k == f.key
       IN  /\ instances' = StoreInstances(k, f.instance)
           /\ IF Has(instances, k)
              THEN UNCHANGED <<types, scopes, finalizers>>
              ELSE /\ types' = StoreTypes(k)
                   /\ scopes' = Put(scopes, k, f.lt)
                   /\ finalizers' = IF f.direct THEN finalizers
                                    ELSE finalizers \cup {<<k, f.instance>>}
           /\ IF TypeAssert(StoreResult(k, f.instance), k)
              THEN ReturnTo(t, StoreResult(k, f.instance))
              ELSE PanicWith(t, AssertMsg(IF f.direct THEN "DirectIOC double-check"
                                          ELSE "singleton double-check"),
                             <<TypeOf(k), TypeOfInstance(instances[k], k)>>)
    /\ UNCHANGED <<lockvars, regvars, world, currentScopeContext, scopeCounter, ctxInstances,
                   previousScope, handles, resolutionPathMap, ciLock, nextInst, resets,
                   invocations, resolves, cleanups, ctxGen, resetMark, ended>>

\* the finalizer of a stored instance that is no longer reachable from the store
Finalizer(k, i) ==
    /\ <<k, i>> \in finalizers
    /\ ~(Has(instances, k) /\ instances[k] = i)
    /\ LocksFree
    /\ instances' = Del(instances, k)
    /\ types' = Del(types, k)
    /\ scopes' = Del(scopes, k)
    /\ finalizers' = finalizers \ {<<k, i>>}
    /\ UNCHANGED <<lockvars, regvars, world, currentScopeContext, scopeCounter, ctxInstances,
                   previousScope, handles, resolutionPathMap, stack, ret, ciLock,
                   nextInst, resolves, cleanups, resets, invocations, ctxGen, resetMark,
                   ended>>

\* the test code stores an instance of another type under the key of a factory:
\* instances[key] = differentFn(); types[key] = ..., under mu.Lock
SetMismatch(t, k) ==
    /\ k \in Mismatched(world)
    /\ LocksFree
    /\ CallerCtx(t)
    /\ instances' = Put(instances, k, DifferentInstance)
    /\ types' = Put(types, k, "DifferentStruct")
    /\ UNCHANGED <<lockvars, regvars, world, scopes, finalizers, currentScopeContext, scopeCounter,
                   ctxInstances, previousScope, handles, resolutionPathMap, stack, ret,
                   ciLock, nextInst, resolves, cleanups, resets, invocations, ctxGen,
                   resetMark, ended>>

(* ------------------------------ IOC, Scoped ---------------------------- *)

getCurrentScopeContext == currentScopeContext

\* a Scoped call without an active scope that goes on as a Singleton call
NoScopePc_Singleton == "read"

\* where a Scoped call goes on when scopeCtx is nil: return fn()
NoScopePc == "fn"

\* scopeCtx := getCurrentScopeContext()
IOCGetScope(t) ==
    /\ At(t, "IOC", "getscope")
    /\ LocksFree
    /\ stack' = [stack EXCEPT ![t] =
                   ReplaceTop(@, [Top(@) EXCEPT
                       !.scopeCtx = getCurrentScopeContext,
                       !.pc = IF getCurrentScopeContext = Nil THEN NoScopePc ELSE "scopeget"])]
    /\ UNCHANGED <<lockvars, regvars, world, instances, types, scopes, finalizers, currentScopeContext,
                   scopeCounter, ctxInstances, previousScope, handles,
                   resolutionPathMap, ret, ciLock, nextInst, resolves, cleanups, resets,
                   invocations, ctxGen, resetMark, ended>>

\* the exists result of scopeCtx.Get(key)
ScopeExists(c, k) == Has(ctxInstances[c], k)

\* scopeCtx.Get(fnPtr)
IOCScopeGet(t) ==
    /\ At(t, "IOC", "scopeget")
    /\ LET f == Top(stack[t])
       IN  IF ScopeExists(f.scopeCtx, f.key)
           THEN IF TypeAssert(ctxInstances[f.scopeCtx][f.key], f.key)
                THEN ReturnTo(t, ctxInstances[f.scopeCtx][f.key])
                ELSE PanicWith(t, AssertMsg("scoped instance"),
                               <<TypeOf(f.key),
                                 TypeOfInstance(ctxInstances[f.scopeCtx][f.key], f.key)>>)
           ELSE /\ stack' = [stack EXCEPT ![t] = ReplaceTop(@, [f EXCEPT !.pc = "getpath"])]
                /\ ret' = ret
    /\ UNCHANGED <<lockvars, regvars, world, instances, types, scopes, finalizers, currentScopeContext,
                   scopeCounter, ctxInstances, previousScope, handles,
                   resolutionPathMap, ciLock, nextInst, resolves, cleanups, resets,
                   invocations, ctxGen, resetMark, ended>>

\* the value IOC returns after scopeCtx.Set(fnPtr, instance)
ScopedResult(c, k, mine) == mine

\* scopeCtx.Set(fnPtr, instance); return instance
IOCScopeSet(t) ==
    /\ At(t, "IOC", "set")
    /\ LET f == Top(stack[t])
       IN  /\ ctxInstances' = [ctxInstances EXCEPT ![f.scopeCtx] = Put(@, f.key, f.instance)]
           /\ ReturnTo(t, ScopedResult(f.scopeCtx, f.key, f.instance))
    /\ UNCHANGED <<lockvars, regvars, world, instances, types, scopes, finalizers, currentScopeContext,
                   scopeCounter, previousScope, handles, resolutionPathMap, ciLock,
                   nextInst, resolves, cleanups, resets, invocations, ctxGen, resetMark,
                   ended>>

(* -------------------------------- scopes ------------------------------- *)

\* string(currentScopeContext.id): the counter makes the id of a context unique
ScopeID(c) == <<"scope", c>>

\* the id of the active context, or the empty string
GetActiveScope == IF currentScopeContext = Nil THEN <<>> ELSE ScopeID(currentScopeContext)

\* a counter that ClearInstances starts again
NextScopeCounter_SinceReset == scopeCounter - resetMark + 1

\* scopeCounter++ under scopeCounterMutex: the counter value of the new context
NextScopeCounter == scopeCounter + 1

\* currentScopeContext = NewScopeContext(), previousScope captured
PushScope ==
    /\ scopeCounter' = NextScopeCounter
    /\ ctxInstances' = Append(ctxInstances, EmptyMap)
    /\ ctxGen' = Append(ctxGen, 0)
    /\ previousScope' = Append(previousScope, currentScopeContext)
    /\ currentScopeContext' = scopeCounter + 1

\* the context whose instances the cleanup function of context c clears
CleanedScope(c) == currentScopeContext

\* a cleanup function that leaves no context active
RestoredScope_None(c) == Nil

\* the context the cleanup function of context c makes active
RestoredScope(c) == previousScope[c]

\* the function returned by BeginScope
CleanupFn(c) ==
    /\ ctxInstances' = IF CleanedScope(c) # Nil
                       THEN [ctxInstances EXCEPT ![CleanedScope(c)] = EmptyMap]
                       ELSE ctxInstances
    /\ ctxGen' = IF CleanedScope(c) # Nil
                 THEN [ctxGen EXCEPT ![CleanedScope(c)] = @ + 1]
                 ELSE ctxGen
    /\ currentScopeContext' = RestoredScope(c)
    /\ ended' = ended \cup {c}

BeginScope(t) ==
    /\ UsesScopes(world)
    /\ scopeCounter < MaxScopes
    /\ LocksFree
    /\ CallerCtx(t)
    /\ PushScope
    /\ handles' = handles \cup {scopeCounter + 1}
    /\ UNCHANGED <<lockvars, regvars, world, instances, types, scopes, finalizers, resolutionPathMap,
                   stack, ret, ciLock, nextInst, resets, invocations, resolves,
                   cleanups, resetMark, ended>>

\* a caller invokes the cleanup function that BeginScope returned for context c
Cleanup(t, c) ==
    /\ UsesScopes(world)
    /\ cleanups < MaxCleanups
    /\ LocksFree
    /\ CallerCtx(t)
    /\ c \in handles
    /\ cleanups' = cleanups + 1
    /\ CleanupFn(c)
    /\ UNCHANGED <<lockvars, regvars, world, instances, types, scopes, finalizers, scopeCounter,
                   previousScope, handles, resolutionPathMap, stack, ret, ciLock,
                   nextInst, resets, invocations, resolves, resetMark>>

\* WithScope: cleanup := BeginScope(); defer cleanup(); fn() is entered
WithScopeBegin(t) ==
    /\ UsesScopes(world)
    /\ scopeCounter < MaxScopes
    /\ LocksFree
    /\ CallerCtx(t)
    /\ PushScope
    /\ stack' = [stack EXCEPT ![t] =
                   Append(@, [Frame("WithScope", "", Singleton, "body") EXCEPT
                                 !.scopeCtx = scopeCounter + 1])]
    /\ UNCHANGED <<lockvars, regvars, world, instances, types, scopes, finalizers, handles,
                   resolutionPathMap, ret, ciLock, nextInst, resets, invocations,
                   resolves, cleanups, resetMark, ended>>

\* fn() returns and the deferred cleanup runs
WithScopeReturn(t) ==
    /\ At(t, "WithScope", "body")
    /\ LocksFree
    /\ CleanupFn(Top(stack[t]).scopeCtx)
    /\ stack' = [stack EXCEPT ![t] = Front(@)]
    /\ UNCHANGED <<lockvars, regvars, world, instances, types, scopes, finalizers, scopeCounter,
                   previousScope, handles, resolutionPathMap, ret, ciLock, nextInst,
                   resets, invocations, resolves, cleanups, resetMark>>

\* fn() panicked: the deferred cleanup runs and the panic goes on to the caller
WithScopeUnwind(t) ==
    /\ At(t, "WithScope", "cleanup")
    /\ LocksFree
    /\ CleanupFn(Top(stack[t]).scopeCtx)
    /\ LET rest == Front(stack[t])
       IN  stack' = [stack EXCEPT ![t] =
                       IF rest = <<>> THEN <<>>
                       ELSE ReplaceTop(rest, [Top(rest) EXCEPT !.pc = "cleanup",
                                                               !.pend = TRUE])]
    /\ UNCHANGED <<lockvars, regvars, world, instances, types, scopes, finalizers, scopeCounter,
                   previousScope, handles, resolutionPathMap, ret, ciLock, nextInst,
                   resets, invocations, resolves, cleanups, resetMark>>

(* ----------------------------- CompactMaps ----------------------------- *)

\* newInstances[k] = v for every k, v of a map
CopyMap(m) == [k \in DOMAIN m |-> m[k]]

\* CompactMaps: above the threshold the three maps are copied entry by entry
\* into new maps, below it they are left alone
CompactMaps(t) ==
    /\ UsesDirect(world)
    /\ LocksFree
    /\ CallerCtx(t)
    /\ \/ /\ instances' = CopyMap(instances)
          /\ types' = CopyMap(types)
          /\ scopes' = CopyMap(scopes)
       \/ UNCHANGED <<instances, types, scopes>>
    /\ UNCHANGED <<lockvars, regvars, world, finalizers, currentScopeContext, scopeCounter,
                   ctxInstances, previousScope, handles, resolutionPathMap, stack, ret,
                   ciLock, nextInst, resolves, cleanups, resets, invocations, ctxGen,
                   resetMark, ended>>

(* ---------------------------- ClearInstances --------------------------- *)

\* a count of the instances stored so far, not of the store
GetInstanceCount_Created == Cardinality(finalizers)

\* len(instances) under the read lock
GetInstanceCount == Cardinality(DOMAIN instances)

\* ClearInstances up to clearAllResolutionPaths(): the four locks are taken, the
\* singleton store and every resolution path are dropped
ClearInstancesMaps(t) ==
    /\ resets < MaxClears
    /\ UsesClear(world)
    /\ LocksFree
    /\ CallerCtx(t)
    /\ resets' = resets + 1
    /\ ciLock' = t
    /\ instances' = EmptyMap
    /\ types' = EmptyMap
    /\ scopes' = EmptyMap
    /\ clearAllResolutionPaths
    /\ invocations' = [k \in Keys |-> 0]
    /\ resetMark' = scopeCounter
    /\ stack' = [stack EXCEPT ![t] = Append(@, Frame("ClearInstances", "", Singleton, "scope"))]
    /\ directInstances' = EmptyMap
    /\ registered' = <<>>
    /\ UNCHANGED <<lockvars, world, finalizers, currentScopeContext, scopeCounter, ctxInstances,
                   previousScope, handles, ret, nextInst, resolves, cleanups, ctxGen,
                   ended>>

\* a ClearInstances that cleans the active context up and leaves it active
ClearedScope_Kept == currentScopeContext

\* the context ClearInstances leaves active
ClearedScope == Nil

\* the end of ClearInstances: the active context is cleaned up and dropped, and the
\* deferred unlocks run
ClearInstancesScope(t) ==
    /\ At(t, "ClearInstances", "scope")
    /\ ctxInstances' = IF currentScopeContext # Nil
                       THEN [ctxInstances EXCEPT ![currentScopeContext] = EmptyMap]
                       ELSE ctxInstances
    /\ ctxGen' = IF currentScopeContext # Nil
                 THEN [ctxGen EXCEPT ![currentScopeContext] = @ + 1]
                 ELSE ctxGen
    /\ currentScopeContext' = ClearedScope
    /\ ciLock' = Nil
    /\ stack' = [stack EXCEPT ![t] = Front(@)]
    /\ UNCHANGED <<lockvars, regvars, world, instances, types, scopes, finalizers, scopeCounter,
                   previousScope, handles, resolutionPathMap, ret, nextInst, resets,
                   invocations, resolves, cleanups, resetMark, ended>>

(* ------------------------------ the locks ------------------------------ *)
(* The same operations seen lock by lock: every Lock, RLock, Unlock and    *)
(* RUnlock of the code is one instruction, a factory call is the           *)
(* instruction "fn", and a goroutine is a stack of (operation, position)   *)
(* pairs.  What the maps hold is left out here: a branch of the code is a  *)
(* choice between the positions it leads to.                               *)

\* operations a caller starts, lock by lock
MaxLockOps == 1
\* operations a goroutine is inside of at once (a factory calls one operation)
MaxLockDepth == 2
\* operations one factory calls before it returns or panics
MaxFactoryCalls == 1

RWLocks == {"mu", "paramNameCacheMutex", "typeRegistryMutex", "directMutex",
            "scopeContextMutex", "ScopeContext.mu"}
PlainLocks == {"scopeCounterMutex", "resolutionPathMutex"}
Locks == RWLocks \cup PlainLocks

Ins(i, l, to) == [i |-> i, l |-> l, to |-> to]
Lock(l) == Ins("Lock", l, {})
Unlock(l) == Ins("Unlock", l, {})
RLock(l) == Ins("RLock", l, {})
RUnlock(l) == Ins("RUnlock", l, {})
\* the code goes on at one of the positions pc + d, d \in to
Branch(to) == Ins("branch", "", to)
\* fn(): goes on at pc + 1 when the factory returns, at pc + pan when it panics
Fn(pan) == Ins("fn", "", {pan})
Return == Ins("return", "", {})
Panic == Ins("panic", "", {})

\* getCurrentResolutionPath, updateResolutionPath, clearAllResolutionPaths
PathAccess == <<Lock("resolutionPathMutex"), Unlock("resolutionPathMutex")>>

\* getCyclePath and the panic of IOC: the path is empty, or one type is read
getCyclePath_Locks ==
    PathAccess \o <<Branch({1, 3}), RLock("mu"), RUnlock("mu"), Panic>>

\* checkForCycle, then the panic or the rest of the operation
CheckForCycle_Locks ==
    PathAccess \o <<Branch({1, 1 + Len(getCyclePath_Locks)})>> \o getCyclePath_Locks

\* the Transient branch: return fn()
Transient_Locks == <<Fn(2), Return, Panic>>

\* the Singleton branch of IOC with the factory called under the write lock
IOCSingleton_FnUnderLock ==
    <<RLock("mu"), RUnlock("mu"), Branch({1, 2, 3}), Return, Panic>>
    \o PathAccess \o PathAccess
    \o <<Lock("mu"), Fn(6)>> \o PathAccess
    \o <<Branch({1, 3}), Unlock("mu"), Return, Unlock("mu"), Panic>>

\* the Singleton branch of IOC with an Unlock before the return instead of
\* the deferred Unlock
IOCSingleton_NoDefer ==
    <<RLock("mu"), RUnlock("mu"), Branch({1, 2, 3}), Return, Panic>>
    \o PathAccess \o PathAccess
    \o <<Fn(8)>> \o PathAccess
    \o <<Lock("mu"), Branch({1, 3}), Unlock("mu"), Return, Panic, Panic>>

\* the Singleton branch of IOC: read, push, fn(), pop, double check and store
IOCSingleton_Locks ==
    <<RLock("mu"), RUnlock("mu"), Branch({1, 2, 3}), Return, Panic>>
    \o PathAccess \o PathAccess
    \o <<Fn(9)>> \o PathAccess
    \o <<Lock("mu"), Branch({1, 3}), Unlock("mu"), Return, Unlock("mu"), Panic,
         Panic>>

\* the Scoped branch of IOC: no scope (fn()), or Get, push, fn(), pop, Set
IOCScoped_Locks ==
    <<RLock("scopeContextMutex"), RUnlock("scopeContextMutex"), Branch({1, 4})>>
    \o Transient_Locks
    \o <<RLock("ScopeContext.mu"), RUnlock("ScopeContext.mu"), Branch({1, 2, 3}),
         Return, Panic>>
    \o PathAccess \o PathAccess
    \o <<Fn(6)>> \o PathAccess
    \o <<Lock("ScopeContext.mu"), Unlock("ScopeContext.mu"), Return, Panic>>

\* DirectIOC after the Transient branch: Scoped returns where Singleton stores
DirectIOC_Locks(lt) ==
    <<RLock("mu"), RUnlock("mu"), Branch({1, 2, 3}), Return, Panic>>
    \o PathAccess \o PathAccess
    \o <<Fn(IF lt = Singleton THEN 9 ELSE 4)>> \o PathAccess
    \o (IF lt = Singleton
        THEN <<Lock("mu"), Branch({1, 3}), Unlock("mu"), Return,
               Unlock("mu"), Panic, Panic>>
        ELSE <<Return, Panic>>)

\* BeginScope with NewScopeContext
BeginScope_Locks ==
    <<Lock("scopeContextMutex"), Lock("scopeCounterMutex"),
      Unlock("scopeCounterMutex"), Unlock("scopeContextMutex")>>

\* the function BeginScope returns: Cleanup of the current context, if any
Cleanup_Locks ==
    <<Lock("scopeContextMutex"), Branch({1, 3}), Lock("ScopeContext.mu"),
      Unlock("ScopeContext.mu"), Unlock("scopeContextMutex")>>

WithScope_Locks ==
    BeginScope_Locks \o <<Fn(2 + Len(Cleanup_Locks))>> \o Cleanup_Locks
    \o <<Return>> \o Cleanup_Locks \o <<Panic>>

MemoryStats_Locks ==
    <<RLock("mu"), RLock("paramNameCacheMutex"), RLock("directMutex")>>
    \o PathAccess \o PathAccess
    \o <<RUnlock("directMutex"), RUnlock("paramNameCacheMutex"), RUnlock("mu"),
         Return>>

\* CompactMaps taking its two locks in the other order
CompactMaps_Inverted ==
    <<Lock("paramNameCacheMutex"), Lock("mu"), Unlock("mu"),
      Unlock("paramNameCacheMutex"), Return>>

CompactMaps_Locks ==
    <<Lock("mu"), Lock("paramNameCacheMutex"), Unlock("paramNameCacheMutex"),
      Unlock("mu"), Return>>

\* GetInstance: the registry is read, then the value is returned, or the
\* type is not registered, or the type assertion fails
GetInstance_Locks ==
    <<RLock("typeRegistryMutex"), RUnlock("typeRegistryMutex"), Branch({1, 2, 3}),
      Return, Panic, Panic>>

ClearInstances_Locks ==
    <<Lock("mu"), Lock("paramNameCacheMutex"), Lock("directMutex"),
      Lock("scopeContextMutex"),
      Lock("typeRegistryMutex"), Unlock("typeRegistryMutex")>>
    \o PathAccess
    \o <<Branch({1, 3}), Lock("ScopeContext.mu"), Unlock("ScopeContext.mu"),
         Unlock("scopeContextMutex"), Unlock("directMutex"),
         Unlock("paramNameCacheMutex"), Unlock("mu"), Return>>

LockOps == {"IOC", "DirectIOC"} \X Lifetimes
           \cup ({"BeginScope", "cleanup", "WithScope", "GetActiveScope",
                  "GetInstanceCount", "MemoryStats", "CompactMaps",
                  "ClearInstances", "GetInstance"} \X {Nil})

\* the operations a factory calls
FactoryOps == {<<"IOC", Singleton>>, <<"BeginScope", Nil>>, <<"ClearInstances", Nil>>}

\* the operations whose factory calls back into the container; the factories
\* of the other operations build their instance without the container
FactoryCallers == {<<"IOC", Singleton>>, <<"DirectIOC", Singleton>>}

\* the instructions of operation o, in the order of the code
Script(o) ==
    CASE o[1] = "IOC" ->
           CheckForCycle_Locks \o
           (CASE o[2] = Transient -> Transient_Locks
              [] o[2] = Scoped -> IOCScoped_Locks
              [] OTHER -> IOCSingleton_Locks)
      [] o[1] = "DirectIOC" ->
           CheckForCycle_Locks \o
           (IF o[2] = Transient THEN Transient_Locks ELSE DirectIOC_Locks(o[2]))
      [] o[1] = "BeginScope" -> BeginScope_Locks \o <<Return>>
      [] o[1] = "cleanup" -> Cleanup_Locks \o <<Return>>
      [] o[1] = "WithScope" -> WithScope_Locks
      [] o[1] = "GetActiveScope" ->
           <<RLock("scopeContextMutex"), RUnlock("scopeContextMutex"), Return>>
      [] o[1] = "GetInstanceCount" -> <<RLock("mu"), RUnlock("mu"), Return>>
      [] o[1] = "MemoryStats" -> MemoryStats_Locks
      [] o[1] = "CompactMaps" -> CompactMaps_Locks
      [] o[1] = "GetInstance" -> GetInstance_Locks
      [] OTHER -> ClearInstances_Locks

InitLocks ==
    /\ lstack = [t \in Threads |-> <<>>]
    /\ lockW = [l \in Locks |-> Nil]
    /\ lockP = [l \in Locks |-> Nil]
    /\ lockR = [l \in Locks |-> {}]
    /\ lops = [t \in Threads |-> 0]

\* calls: the operations the factory of this operation has called
LockFrame(o) == [op |-> o, pc |-> 1, calls |-> 0]

\* the instruction goroutine t is at
Current(t) == Script(Top(lstack[t]).op)[Top(lstack[t]).pc]

Inside(t, i) == lstack[t] # <<>> /\ Current(t).i = i

\* goroutine t goes on d instructions further
Advance(t, d) == lstack' = [lstack EXCEPT ![t] = ReplaceTop(@, [Top(@) EXCEPT !.pc = @ + d])]

\* the locks goroutine t holds, for reading or for writing
Held(t) == {l \in Locks : lockW[l] = t \/ t \in lockR[l]}

\* the lock goroutine t is about to take, if any
Wanted(t) ==
    IF lstack[t] # <<>> /\ Current(t).i \in {"Lock", "RLock"}
    THEN {Current(t).l} ELSE {}

\* a caller calls operation o
LockCall(t, o) ==
    /\ lstack[t] = <<>>
    /\ lops[t] < MaxLockOps
    /\ lstack' = [lstack EXCEPT ![t] = <<LockFrame(o)>>]
    /\ lops' = [lops EXCEPT ![t] = @ + 1]
    /\ UNCHANGED <<mainvars, regvars, lockW, lockP, lockR>>

\* a branch of the code
LockBranch(t) ==
    /\ Inside(t, "branch")
    /\ \E d \in Current(t).to : Advance(t, d)
    /\ UNCHANGED <<mainvars, regvars, lockW, lockP, lockR, lops>>

\* sync.Mutex.Lock
MutexLock(t) ==
    /\ Inside(t, "Lock")
    /\ Current(t).l \in PlainLocks
    /\ lockW[Current(t).l] = Nil
    /\ lockW' = [lockW EXCEPT ![Current(t).l] = t]
    /\ Advance(t, 1)
    /\ UNCHANGED <<mainvars, regvars, lockP, lockR, lops>>

\* sync.RWMutex.Lock, first half: the writer excludes the other writers and
\* announces itself to the readers
WriterAnnounce(t) ==
    /\ Inside(t, "Lock")
    /\ Current(t).l \in RWLocks
    /\ lockW[Current(t).l] = Nil
    /\ lockP[Current(t).l] = Nil
    /\ lockP' = [lockP EXCEPT ![Current(t).l] = t]
    /\ UNCHANGED <<mainvars, regvars, lstack, lockW, lockR, lops>>

\* sync.RWMutex.Lock, second half: the readers have left
WriterLock(t) ==
    /\ Inside(t, "Lock")
    /\ lockP[Current(t).l] = t
    /\ lockR[Current(t).l] = {}
    /\ lockP' = [lockP EXCEPT ![Current(t).l] = Nil]
    /\ lockW' = [lockW EXCEPT ![Current(t).l] = t]
    /\ Advance(t, 1)
    /\ UNCHANGED <<mainvars, regvars, lockR, lops>>

\* sync.RWMutex.RLock: blocks while a writer holds the lock or waits for it
ReaderLock(t) ==
    /\ Inside(t, "RLock")
    /\ lockW[Current(t).l] = Nil
    /\ lockP[Current(t).l] = Nil
    /\ lockR' = [lockR EXCEPT ![Current(t).l] = @ \cup {t}]
    /\ Advance(t, 1)
    /\ UNCHANGED <<mainvars, regvars, lockW, lockP, lops>>

\* Unlock of either kind of mutex
LockUnlock(t) ==
    /\ Inside(t, "Unlock")
    /\ lockW' = [lockW EXCEPT ![Current(t).l] = Nil]
    /\ Advance(t, 1)
    /\ UNCHANGED <<mainvars, regvars, lockP, lockR, lops>>

ReaderUnlock(t) ==
    /\ Inside(t, "RUnlock")
    /\ lockR' = [lockR EXCEPT ![Current(t).l] = @ \ {t}]
    /\ Advance(t, 1)
    /\ UNCHANGED <<mainvars, regvars, lockW, lockP, lops>>

\* the factory calls a container operation
FactoryCalls(t, o) ==
    /\ Inside(t, "fn")
    /\ Len(lstack[t]) < MaxLockDepth
    /\ Top(lstack[t]).op \in FactoryCallers
    /\ Top(lstack[t]).calls < MaxFactoryCalls
    /\ lstack' = [lstack EXCEPT ![t] =
                     Append(ReplaceTop(@, [Top(@) EXCEPT !.calls = @ + 1]),
                            LockFrame(o))]
    /\ UNCHANGED <<mainvars, regvars, lockW, lockP, lockR, lops>>

FactoryReturns(t) ==
    /\ Inside(t, "fn")
    /\ Advance(t, 1)
    /\ UNCHANGED <<mainvars, regvars, lockW, lockP, lockR, lops>>

\* the factory panics by itself
FactoryPanics(t) ==
    /\ Inside(t, "fn")
    /\ \E d \in Current(t).to : Advance(t, d)
    /\ UNCHANGED <<mainvars, regvars, lockW, lockP, lockR, lops>>

\* the operation returns, to the caller or into the factory that called it
LockReturn(t) ==
    /\ Inside(t, "return")
    /\ lstack' = [lstack EXCEPT ![t] = Front(@)]
    /\ UNCHANGED <<mainvars, regvars, lockW, lockP, lockR, lops>>

\* the operation panics: the panic leaves the factory that called it, too
LockPanic(t) ==
    /\ Inside(t, "panic")
    /\ lstack' = [lstack EXCEPT ![t] =
                     IF Len(@) = 1 THEN <<>>
                     ELSE LET f == Front(@)
                              d == CHOOSE d \in Script(Top(f).op)[Top(f).pc].to : TRUE
                          IN  ReplaceTop(f, [Top(f) EXCEPT !.pc = @ + d])]
    /\ UNCHANGED <<mainvars, regvars, lockW, lockP, lockR, lops>>

\* the steps goroutine t takes by itself once it is inside an operation
Progress(t) ==
    \/ LockBranch(t)
    \/ MutexLock(t)
    \/ WriterAnnounce(t)
    \/ WriterLock(t)
    \/ ReaderLock(t)
    \/ LockUnlock(t)
    \/ ReaderUnlock(t)
    \/ FactoryReturns(t)
    \/ FactoryPanics(t)
    \/ LockReturn(t)
    \/ LockPanic(t)

(* --------------------------- the specification ------------------------- *)

\* the container after initializeContainer, before any call
InitContainer ==
    /\ instances = EmptyMap
    /\ types = EmptyMap
    /\ scopes = EmptyMap
    /\ finalizers = {}
    /\ currentScopeContext = Nil
    /\ scopeCounter = 0
    /\ ctxInstances = <<>>
    /\ previousScope = <<>>
    /\ handles = {}
    /\ resolutionPathMap = [g \in Threads |-> <<>>]
    /\ stack = [t \in Threads |-> <<>>]
    /\ ret = [t \in Threads |-> <<>>]
    /\ ctxGen = <<>>
    /\ resetMark = 0
    /\ ended = {}
    /\ ciLock = Nil
    /\ nextInst = [t \in Threads |-> 0]
    /\ resolves = 0
    /\ cleanups = 0
    /\ resets = 0
    /\ invocations = [k \in Keys |-> 0]
    /\ directInstances = EmptyMap
    /\ registered = <<>>

Init ==
    /\ world \in Worlds
    /\ InitContainer
    /\ InitLocks

Next ==
    \/ \E t \in Threads, k \in Roots(world), lt \in RootLifetimes(world) :
           CallIOC(t, k, lt)
    \/ \E t \in Threads : IOCCyclePath(t)
    \/ \E t \in Threads : IOCCycleRender(t)
    \/ \E t \in Threads : IOCRead(t)
    \/ \E t \in Threads : IOCGetPath(t)
    \/ \E t \in Threads : IOCPush(t)
    \/ \E t \in Threads : FnCall(t)
    \/ \E t \in Threads : FnReturn(t)
    \/ \E t \in Threads : FnPanic(t)
    \/ \E t \in Threads : IOCPop(t)
    \/ \E t \in Threads : IOCStore(t)
    \/ \E t \in Threads : IOCGetScope(t)
    \/ \E t \in Threads : IOCScopeGet(t)
    \/ \E t \in Threads : IOCScopeSet(t)
    \/ \E t \in Threads : BeginScope(t)
    \/ \E t \in Threads, c \in handles : Cleanup(t, c)
    \/ \E t \in Threads : WithScopeBegin(t)
    \/ \E t \in Threads : WithScopeReturn(t)
    \/ \E t \in Threads : WithScopeUnwind(t)
    \/ \E t \in Threads : ClearInstancesMaps(t)
    \/ \E t \in Threads : ClearInstancesScope(t)
    \/ \E f \in finalizers : Finalizer(f[1], f[2])
    \/ \E t \in Threads, k \in Mismatched(world) : SetMismatch(t, k)
    \/ \E t \in Threads, k \in Roots(world), lt \in RootLifetimes(world) :
           CallDirectIOC(t, k, lt)
    \/ \E t \in Threads : CompactMaps(t)

Spec == Init /\ [][Next]_vars

\* the container lock by lock, its maps left as they are after construction
LockInit ==
    /\ world = "scopes"
    /\ InitContainer
    /\ InitLocks

LockNext ==
    \/ \E t \in Threads, o \in LockOps : LockCall(t, o)
    \/ \E t \in Threads, o \in FactoryOps : FactoryCalls(t, o)
    \/ \E t \in Threads : LockBranch(t)
    \/ \E t \in Threads : MutexLock(t)
    \/ \E t \in Threads : WriterAnnounce(t)
    \/ \E t \in Threads : WriterLock(t)
    \/ \E t \in Threads : ReaderLock(t)
    \/ \E t \in Threads : LockUnlock(t)
    \/ \E t \in Threads : ReaderUnlock(t)
    \/ \E t \in Threads : FactoryReturns(t)
    \/ \E t \in Threads : FactoryPanics(t)
    \/ \E t \in Threads : LockReturn(t)
    \/ \E t \in Threads : LockPanic(t)

\* the Go scheduler is preemptive: a goroutine that can take a step is not
\* held back for ever, and a factory that terminates returns or panics
LockSpec == LockInit /\ [][LockNext]_vars /\ \A t \in Threads : WF_vars(Progress(t))

(* --------------------------- InjectConstructor ------------------------- *)
(* NewTestUserService(db *TestDatabase, logger *TestLogger): A stands for  *)
(* the database, B for the logger, C for the user service it builds.       *)

\* the parameters of the constructor: constructorType.In(i) and the name
\* written in the source
Params == <<[name |-> "db", type |-> TypeOf("A")],
            [name |-> "logger", type |-> TypeOf("B")]>>

\* the types the dependency factories of the tests return
FactoryTypes == {TypeOf("A"), TypeOf("B"), "*DifferentStruct"}

\* options.Dependencies: a factory, given by the type it returns, for some of
\* the names
OptionSets == UNION {[S -> FactoryTypes] : S \in SUBSET {"db", "logger"}}

\* t.AssignableTo(paramType), for the struct pointer types of the tests
AssignableTo(t, p) == t = p

\* an explicit dependency that is passed on without the check
ExplicitAccepted_Unchecked(t, p) == TRUE

\* the check of the result of an explicit dependency factory
ExplicitAccepted(t, p) == AssignableTo(t, p)

\* getParamName: the name read from the source file, or "param<i>" when the
\* file or the declaration cannot be read
getParamName(named, i) ==
    IF named THEN Params[i].name ELSE IF i = 1 THEN "param0" ELSE "param1"

\* instanceTypeMap before its lazy initialisation
NoTypeMap == [made |-> FALSE, keys |-> {}]

\* the keys of instanceTypeMap: reflect.TypeOf(instance) of every stored instance
StoredTypes == {TypeOfInstance(instances[k], k) : k \in DOMAIN instances}

InjectFrame(opts, named) ==
    [op |-> "InjectConstructor", pc |-> "param", i |-> 1, args |-> <<>>,
     opts |-> opts, named |-> named, typeMap |-> NoTypeMap]

\* what a call of InjectConstructor produced: the value the constructor
\* returned or a recovered panic, the arguments resolved until then
InjectRet(f, kind, msg) ==
    [op |-> "InjectConstructor", kind |-> kind, msg |-> msg, args |-> f.args,
     opts |-> f.opts, named |-> f.named]

IsInject(x) == "op" \in DOMAIN x /\ x.op = "InjectConstructor"

\* the calls of InjectConstructor made so far
InjectCalls ==
    Cardinality({t \in Threads : stack[t] # <<>> /\ IsInject(Top(stack[t]))})
    + Cardinality({<<t, n>> \in Threads \X (1..(MaxResolves + MaxInjects)) :
                      n <= Len(ret[t]) /\ IsInject(ret[t][n])})

\* a caller calls InjectConstructor(constructor, opts...)
CallInjectConstructor(t, opts, named) ==
    /\ InjectCalls < MaxInjects
    /\ stack[t] = <<>>
    /\ stack' = [stack EXCEPT ![t] = <<InjectFrame(opts, named)>>]
    /\ UNCHANGED <<lockvars, regvars, world, instances, types, scopes, finalizers,
                   currentScopeContext, scopeCounter, ctxInstances, previousScope,
                   handles, resolutionPathMap, ret, ciLock, nextInst, resolves,
                   cleanups, resets, invocations, ctxGen, resetMark, ended>>

\* args[i] = v; continue
InjectArg(t, v, tm) ==
    /\ stack' = [stack EXCEPT ![t] =
                   ReplaceTop(@, [Top(@) EXCEPT !.args = Append(@, v),
                                                !.i = @ + 1,
                                                !.typeMap = tm])]
    /\ ret' = ret

\* a panic of InjectConstructor, recovered by the caller
InjectPanic(t, msg) ==
    /\ stack' = [stack EXCEPT ![t] = Front(@)]
    /\ ret' = [ret EXCEPT ![t] = Append(@, InjectRet(Top(stack[t]), "panic", msg))]

\* one turn of the loop for a parameter that has a dependency in the options:
\* the factory is called and its result checked
InjectExplicit(t) ==
    /\ At(t, "InjectConstructor", "param")
    /\ LET f == Top(stack[t])
       IN  /\ f.i <= Len(Params)
           /\ getParamName(f.named, f.i) \in DOMAIN f.opts
           /\ LET r == f.opts[getParamName(f.named, f.i)]
              IN  IF ExplicitAccepted(r, Params[f.i].type)
                  THEN InjectArg(t, [type |-> r, from |-> "explicit"], f.typeMap)
                  ELSE InjectPanic(t, "dependency type mismatch")
    /\ UNCHANGED <<lockvars, regvars, world, instances, types, scopes, finalizers,
                   currentScopeContext, scopeCounter, ctxInstances, previousScope,
                   handles, resolutionPathMap, ciLock, nextInst, resolves,
                   cleanups, resets, invocations, ctxGen, resetMark, ended>>

\* one turn of the loop for a parameter without a dependency in the options:
\* the stored instances (read once, under mu.RLock), the exact type first,
\* then the factories of the options, by type
InjectLookup(t) ==
    /\ At(t, "InjectConstructor", "param")
    /\ LET f == Top(stack[t])
           p == Params[f.i].type
           tm == IF f.typeMap.made THEN f.typeMap
                 ELSE [made |-> TRUE, keys |-> StoredTypes]
           stored == IF p \in tm.keys THEN {p}
                     ELSE {x \in tm.keys : AssignableTo(x, p)}
           made == {x \in {f.opts[n] : n \in DOMAIN f.opts} : AssignableTo(x, p)}
       IN  /\ f.i <= Len(Params)
           /\ getParamName(f.named, f.i) \notin DOMAIN f.opts
           /\ ~f.typeMap.made => LocksFree
           /\ IF stored # {}
              THEN \E x \in stored : InjectArg(t, [type |-> x, from |-> "store"], tm)
              ELSE IF made # {}
              THEN \E x \in made : InjectArg(t, [type |-> x, from |-> "options"], tm)
              ELSE InjectPanic(t, "no dependency found")
    /\ UNCHANGED <<lockvars, regvars, world, instances, types, scopes, finalizers,
                   currentScopeContext, scopeCounter, ctxInstances, previousScope,
                   handles, resolutionPathMap, ciLock, nextInst, resolves,
                   cleanups, resets, invocations, ctxGen, resetMark, ended>>

\* constructorValue.Call(args): the constructor runs and its result is returned
InjectCall(t) ==
    /\ At(t, "InjectConstructor", "param")
    /\ Top(stack[t]).i > Len(Params)
    /\ invocations' = [invocations EXCEPT !["C"] = @ + 1]
    /\ stack' = [stack EXCEPT ![t] = Front(@)]
    /\ ret' = [ret EXCEPT ![t] = Append(@, InjectRet(Top(stack[t]), "value", ""))]
    /\ UNCHANGED <<lockvars, regvars, world, instances, types, scopes, finalizers,
                   currentScopeContext, scopeCounter, ctxInstances, previousScope,
                   handles, resolutionPathMap, ciLock, nextInst, resolves,
                   cleanups, resets, ctxGen, resetMark, ended>>

InjectInit ==
    /\ world = "inject"
    /\ InitContainer
    /\ InitLocks

\* the goroutines resolve the database and the logger as singletons and call
\* InjectConstructor
InjectNext ==
    \/ \E t \in Threads, k \in Roots(world) : CallIOC(t, k, Singleton)
    \/ \E t \in Threads : IOCRead(t)
    \/ \E t \in Threads : IOCGetPath(t)
    \/ \E t \in Threads : IOCPush(t)
    \/ \E t \in Threads : FnReturn(t)
    \/ \E t \in Threads : IOCPop(t)
    \/ \E t \in Threads : IOCStore(t)
    \/ \E t \in Threads, opts \in OptionSets, named \in BOOLEAN :
           CallInjectConstructor(t, opts, named)
    \/ \E t \in Threads : InjectExplicit(t)
    \/ \E t \in Threads : InjectLookup(t)
    \/ \E t \in Threads : InjectCall(t)

InjectSpec == InjectInit /\ [][InjectNext]_vars

(* --------------------------- the type registry ------------------------- *)

\* the types the client registers: the Type1 and Type2 that TestMemoryOptimizations
\* declares and the Type1 that TestIOCMultipleTypes declares, all of package gioc
RegTypes ==
    {[pkg |-> "gioc", decl |-> "TestMemoryOptimizations", name |-> "Type1"],
     [pkg |-> "gioc", decl |-> "TestMemoryOptimizations", name |-> "Type2"],
     [pkg |-> "gioc", decl |-> "TestIOCMultipleTypes", name |-> "Type1"]}

\* reflect.Type.String of a pointer to the type: the package name and the type
\* name, without the function the type is declared in
TypeString(ty) == <<"*", ty.pkg, ty.name>>

\* no instance: what a call that panics returns
NoRegistered == [type |-> [pkg |-> "", decl |-> "", name |-> ""], n |-> 0, gen |-> 0]

\* the instance a call of RegisterType is given
NewRegistered(ty) == [type |-> ty, n |-> Len(registered) + 1, gen |-> resets]

\* len(directInstances)
TypeCount == Cardinality(DOMAIN directInstances)

\* the types registered since the last reset
RegisteredTypes == {registered[i].type : i \in 1..Len(registered)}

\* the instance of the type registered last since the last reset
LastRegistered(ty) ==
    LET at == {i \in 1..Len(registered) : registered[i].type = ty}
    IN IF at = {} THEN NoRegistered
       ELSE registered[CHOOSE i \in at : \A j \in at : j <= i]

\* the type assertion instance.(T)
AssertsTo(instance, ty) == instance.type = ty

\* what GetType[T] returns or panics with
GetTypeResult(ty) ==
    IF ~Has(directInstances, TypeString(ty))
    THEN [outcome |-> "panic", msg |-> "No instance registered", instance |-> NoRegistered]
    ELSE IF ~AssertsTo(directInstances[TypeString(ty)], ty)
    THEN [outcome |-> "panic", msg |-> "Type assertion failed", instance |-> NoRegistered]
    ELSE [outcome |-> "value", msg |-> "", instance |-> directInstances[TypeString(ty)]]

RegistryIdle(t) ==
    /\ world = "registry"
    /\ LocksFree
    /\ stack[t] = <<>>

RegisterType(t, ty) ==
    /\ RegistryIdle(t)
    /\ Len(registered) < MaxRegisters
    /\ directInstances' = Put(directInstances, TypeString(ty), NewRegistered(ty))
    /\ registered' = Append(registered, NewRegistered(ty))
    /\ UNCHANGED <<mainvars, lockvars>>

GetType(t, ty) ==
    /\ RegistryIdle(t)
    /\ Len(ret[t]) < MaxQueries
    /\ ret' = [ret EXCEPT ![t] = Append(@, [op |-> "GetType", type |-> ty,
                                            res |-> GetTypeResult(ty),
                                            last |-> LastRegistered(ty)])]
    /\ UNCHANGED <<lockvars, regvars, world, instances, types, scopes, finalizers,
                   currentScopeContext, scopeCounter, ctxInstances, previousScope,
                   handles, stack, resolutionPathMap, ciLock, nextInst, resolves,
                   cleanups, resets, ctxGen, resetMark, ended, invocations>>

CallTypeCount(t) ==
    /\ RegistryIdle(t)
    /\ Len(ret[t]) < MaxQueries
    /\ ret' = [ret EXCEPT ![t] = Append(@, [op |-> "TypeCount", count |-> TypeCount,
                                            distinct |-> Cardinality(RegisteredTypes),
                                            since |-> Len(registered)])]
    /\ UNCHANGED <<lockvars, regvars, world, instances, types, scopes, finalizers,
                   currentScopeContext, scopeCounter, ctxInstances, previousScope,
                   handles, stack, resolutionPathMap, ciLock, nextInst, resolves,
                   cleanups, resets, ctxGen, resetMark, ended, invocations>>

RegistryInit ==
    /\ world = "registry"
    /\ InitContainer
    /\ InitLocks

\* the goroutines register instances, read the registry and reset the container
RegistryNext ==
    \/ \E t \in Threads, ty \in RegTypes : RegisterType(t, ty)
    \/ \E t \in Threads, ty \in RegTypes : GetType(t, ty)
    \/ \E t \in Threads : CallTypeCount(t)
    \/ \E t \in Threads : ClearInstancesMaps(t)
    \/ \E t \in Threads : ClearInstancesScope(t)

RegistrySpec == RegistryInit /\ [][RegistryNext]_vars

(* ------------------------------ the claims ----------------------------- *)

CycleMsg == "circular dependency detected"

\* the results the IOC calls of the callers have produced so far
Results == UNION {{ret[t][i] : i \in 1..Len(ret[t])} : t \in Threads}

\* the IOC frames of the call a caller has in progress, bottom first
Run(t) == SubSeq(stack[t], Len(StripIOC(stack[t])) + 1, Len(stack[t]))

\* C1: Singleton idempotence.  Every Singleton call of IOC that has returned with no
\* ClearInstances since it was made, on whatever goroutine and in whatever
\* interleaving, returned the instance the singleton store retains for its factory;
\* so all the calls made for one factory between two resets return the identical
\* instance.
C1_SingletonIdempotence ==
    \A r \in Results :
        (r.kind = "value" /\ r.lt = Singleton /\ r.r0 = resets) =>
            /\ Has(instances, r.key)
            /\ instances[r.key] = r.inst

\* the part of C1 that holds: as long as ClearInstances has never been called, the
\* Singleton calls that have returned hold the instance the store retains
SingletonIdempotenceBeforeReset ==
    (resets = 0 /\ Mismatched(world) = {}) =>
        \A r \in Results :
            (r.kind = "value" /\ r.lt = Singleton) =>
                /\ Has(instances, r.key)
                /\ instances[r.key] = r.inst

\* C2: with Singleton lifetime the factory of a key is invoked at most once between
\* two resets, even when several goroutines resolve the same uncached key together.
C2_FactoryOnce == \A k \in Keys : invocations[k] <= 1

\* C3: in the program where A resolves B and B resolves A (and C resolves itself), a
\* Singleton call made with an empty path and not crossed by a ClearInstances ends
\* in the circular dependency panic, raised by the IOC call that re-enters the key
\* the caller asked for; while a Singleton factory is running, a nested IOC call
\* for the same key never gets as far as the factory; and nothing is ever stored.
C3_CycleDetected ==
    world = "cycle" =>
        /\ instances = EmptyMap
        /\ \A r \in Results :
               (r.lt = Singleton /\ r.p0 /\ r.quiet) =>
                   /\ r.kind = "panic"
                   /\ r.msg = CycleMsg
                   /\ r.at = r.key
        /\ \A t \in Threads : \A i, j \in 1..Len(stack[t]) :
               (/\ i < j
                /\ stack[t][i].op = "IOC"
                /\ stack[t][i].lt = Singleton
                /\ stack[t][i].pc = "fn"
                /\ stack[t][i].r0 = resets
                /\ stack[t][j].op = "IOC"
                /\ stack[t][j].key = stack[t][i].key)
               => stack[t][j].pc \in {"cyclepath", "cyclerender"}

\* C3, its case: IOC(A) has gone through the factories of A and B and has ended in
\* the panic raised at the second IOC(A)
C3_Witness ==
    /\ world = "cycle"
    /\ \E r \in Results :
           /\ r.kind = "panic"
           /\ r.msg = CycleMsg
           /\ r.key = "A"
           /\ r.at = "A"
           /\ r.lt = Singleton
           /\ r.p0
           /\ r.quiet
    /\ invocations["A"] = 1
    /\ invocations["B"] = 1

\* C4: a failed resolution never corrupts the path of the goroutine.  When an IOC
\* call made with an empty path has ended in a panic and the goroutine is back in
\* the caller, its path is empty again; and in the programs without a cycle no call
\* ever ends in the circular dependency panic.
C4_PathRestored ==
    /\ \A t \in Threads :
           (/\ stack[t] = <<>>
            /\ ret[t] # <<>>
            /\ Top(ret[t]).kind = "panic"
            /\ Top(ret[t]).p0)
           => resolutionPathMap[t] = <<>>
    /\ ~Cyclic(world) => \A r \in Results : r.msg # CycleMsg

\* C5: in the programs without a cycle (the chain A, B, C and the diamond in which A
\* and B share C), an IOC call made with an empty path never raises the circular
\* dependency panic, neither itself nor in the calls its factories make; it returns
\* an instance unless a factory panics.
C5_AcyclicNoCyclePanic ==
    ~Cyclic(world) =>
        /\ \A r \in Results :
               r.p0 => \/ r.kind = "value" /\ r.inst # NoInst
                       \/ r.kind = "panic" /\ r.msg = "factory failed"
        /\ \A t \in Threads : \A j \in 1..Len(Run(t)) :
               Run(t)[1].p0 => Run(t)[j].pc \notin {"cyclepath", "cyclerender"}

\* C5, its case: IOC(A) has resolved the whole diamond and returned
C5_Witness ==
    /\ world = "diamond"
    /\ \E r \in Results :
           r.kind = "value" /\ r.key = "A" /\ r.lt = Singleton /\ r.p0
    /\ DOMAIN instances = {"A", "B", "C"}
    /\ invocations = [k \in Keys |-> 1]

\* C6: resolution paths are per goroutine.  An IOC call of a run that began with an
\* empty path of its own raises the circular dependency panic for key k only when
\* a factory of k is running below it on the stack of the same goroutine; what the
\* other goroutines are inside of never makes it raise.
C6_PathsPerGoroutine ==
    \A t \in Threads : \A j \in 1..Len(Run(t)) :
        (Run(t)[1].p0 /\ Run(t)[j].pc \in {"cyclepath", "cyclerender"}) =>
            \E i \in 1..(j - 1) :
                /\ Run(t)[i].key = Run(t)[j].key
                /\ Run(t)[i].pc = "fn"

\* C6, its case: goroutine 1 is inside the factory of A, and in the meantime the
\* IOC(A) of goroutine 2 has run the factory as well and has returned an instance
C6_Witness ==
    /\ world = "diamond"
    /\ stack[1] # <<>>
    /\ stack[1][1].op = "IOC"
    /\ stack[1][1].key = "A"
    /\ stack[1][1].lt = Singleton
    /\ stack[1][1].pc = "fn"
    /\ resolutionPathMap[1] = <<"A">>
    /\ Len(ret[2]) = 1
    /\ ret[2][1].kind = "value"
    /\ ret[2][1].key = "A"
    /\ ret[2][1].lt = Singleton
    /\ ret[2][1].inst[1] = 2
    /\ resolves = 2
    /\ resets = 0

\* C7: the Scoped calls of IOC for one factory that returned from the same scope
\* context, with no cleanup of that context between them, returned the identical
\* instance, whatever goroutines made them.
C7_ScopedSameInstance ==
    \A r1, r2 \in Results :
        (/\ r1.kind = "value" /\ r1.lt = Scoped /\ r1.ctx # Nil
         /\ r2.kind = "value" /\ r2.lt = Scoped
         /\ r2.key = r1.key /\ r2.ctx = r1.ctx /\ r2.gen = r1.gen)
        => r2.inst = r1.inst

\* one goroutine made both calls and no other goroutine has a Scoped result from
\* the same context between the same cleanups
SameThreadOnly(t, r) ==
    \A u \in Threads \ {t} : \A n \in 1..Len(ret[u]) :
        ~(/\ ret[u][n].kind = "value" /\ ret[u][n].lt = Scoped
          /\ ret[u][n].key = r.key /\ ret[u][n].ctx = r.ctx /\ ret[u][n].gen = r.gen)

\* the part of C8 that holds: between two cleanups of a context, the Scoped calls
\* one goroutine makes for one factory return the identical instance from it
ScopedIdempotenceBetweenCleanups ==
    \A t \in Threads : \A i, j \in 1..Len(ret[t]) :
        (/\ i < j
         /\ ret[t][i].kind = "value" /\ ret[t][i].lt = Scoped /\ ret[t][i].ctx # Nil
         /\ ret[t][j].kind = "value" /\ ret[t][j].lt = Scoped
         /\ ret[t][j].key = ret[t][i].key
         /\ ret[t][j].ctx = ret[t][i].ctx
         /\ ret[t][j].gen = ret[t][i].gen
         /\ SameThreadOnly(t, ret[t][i]))
        => ret[t][j].inst = ret[t][i].inst

\* C8: within one scope (the scope was the active one for both calls, its cleanup
\* function has not been invoked, ClearInstances has not been called and no other
\* goroutine has resolved anything) the Scoped calls one goroutine makes for one
\* factory return the identical instance; Scoped calls that used different scope
\* contexts return different instances.
C8_ScopedIsolation ==
    /\ \A t \in Threads : \A i, j \in 1..Len(ret[t]) :
           (/\ i < j
            /\ ret[t][i].kind = "value" /\ ret[t][i].lt = Scoped /\ ret[t][i].ctx # Nil
            /\ ret[t][j].kind = "value" /\ ret[t][j].lt = Scoped
            /\ ret[t][j].key = ret[t][i].key
            /\ ret[t][j].ctx = ret[t][i].ctx
            /\ ret[t][i].ctx \notin ended
            /\ resets = 0
            /\ \A u \in Threads \ {t} : ret[u] = <<>>)
           => ret[t][j].inst = ret[t][i].inst
    /\ \A r1, r2 \in Results :
           (/\ r1.kind = "value" /\ r1.lt = Scoped /\ r1.ctx # Nil
            /\ r2.kind = "value" /\ r2.lt = Scoped /\ r2.ctx # Nil
            /\ r2.ctx # r1.ctx)
           => r2.inst # r1.inst

\* the cleanup function of context c is invoked in this step
CleanupOf(c) ==
    \E t \in Threads :
        \/ Cleanup(t, c)
        \/ At(t, "WithScope", "body") /\ Top(stack[t]).scopeCtx = c /\ WithScopeReturn(t)
        \/ At(t, "WithScope", "cleanup") /\ Top(stack[t]).scopeCtx = c
                                        /\ WithScopeUnwind(t)

\* C9: whenever the cleanup function of a scope context is invoked, in whatever
\* order, the instances map of that context is empty afterwards and the context that
\* was active just before the context was created is the active one.
C9_CleanupOwnContext ==
    [][\A c \in 1..scopeCounter :
           CleanupOf(c) => /\ ctxInstances'[c] = EmptyMap
                           /\ currentScopeContext' = previousScope[c]]_vars

\* C10: once ClearInstances has returned, GetActiveScope reports no scope that was
\* begun before the reset, and no Scoped call made after the reset returns from the
\* context of such a scope.
C10_ResetDiscardsScopes ==
    /\ ciLock = Nil => GetActiveScope \notin {ScopeID(c) : c \in 1..resetMark}
    /\ \A r \in Results :
           (/\ r.kind = "value" /\ r.lt = Scoped /\ r.ctx # Nil
            /\ resets > 0 /\ r.r0 = resets)
           => r.ctx > resetMark

\* ClearInstances returns in this step
ClearInstancesReturns == \E t \in Threads : ClearInstancesScope(t)

\* a Singleton call made after a reset returns an instance different from every
\* instance a call for the same factory returned before that reset
FreshAfterReset ==
    \A r1, r2 \in Results :
        (/\ r1.kind = "value" /\ r1.lt = Singleton /\ r1.quiet
         /\ r2.kind = "value" /\ r2.lt = Singleton
         /\ r2.key = r1.key
         /\ r1.r0 < r2.r0)
        => r2.inst # r1.inst

\* C11: reset completeness.  When ClearInstances returns, GetInstanceCount() is 0
\* and GetActiveScope() is the empty string; and an IOC(f) made after the reset
\* returns a new instance, different from the one cached for f before the reset.
C11_ResetCompleteness ==
    [][/\ ClearInstancesReturns => (GetInstanceCount' = 0 /\ GetActiveScope' = <<>>)
       /\ FreshAfterReset']_vars

\* C11, its case: A was cached, a scope was active, ClearInstances has returned
\* and a new IOC(A) has returned another instance
C11_Witness ==
    /\ world = "scopes"
    /\ resets = 1
    /\ ciLock = Nil
    /\ resetMark >= 1
    /\ \E r1, r2 \in Results :
           /\ r1.kind = "value" /\ r1.lt = Singleton /\ r1.key = "A" /\ r1.r0 = 0
           /\ r2.kind = "value" /\ r2.lt = Singleton /\ r2.key = "A" /\ r2.r0 = 1
           /\ r1.quiet
           /\ r2.inst # r1.inst
    /\ GetInstanceCount = 1

\* C12: Scoped instances are isolated between requests.  When two goroutines each
\* run their own WithScope at overlapping times, a Scoped call of IOC made in the
\* body of one WithScope never returns the instance a Scoped call for the same
\* factory returned in the body of the other goroutine's WithScope.
C12_ScopedRequestIsolation ==
    \A t, u \in Threads : \A i \in 1..Len(ret[t]) : \A j \in 1..Len(ret[u]) :
        (/\ t # u
         /\ ret[t][i].kind = "value" /\ ret[t][i].lt = Scoped /\ ret[t][i].own # Nil
         /\ ret[u][j].kind = "value" /\ ret[u][j].lt = Scoped /\ ret[u][j].own # Nil
         /\ ret[u][j].key = ret[t][i].key
         /\ ret[u][j].own # ret[t][i].own)
        => ret[u][j].inst # ret[t][i].inst

\* every scope that was begun has been ended, and no cleanup function returned by
\* BeginScope was invoked twice (the deferred cleanup of WithScope runs once)
AllScopesEndedOnce ==
    /\ scopeCounter > 0
    /\ \A c \in 1..scopeCounter : c \in ended
    /\ cleanups = Cardinality(ended \cap handles)

\* C13: after every scope that was begun has been ended, each cleanup function
\* invoked exactly once, in any order and from any goroutines, GetActiveScope()
\* returns the empty string.
C13_AllEndedNoActiveScope ==
    AllScopesEndedOnce => GetActiveScope = <<>>

\* a cleanup function that was invoked before is invoked again in this step
SecondCleanup(c) == c \in ended /\ \E t \in Threads : Cleanup(t, c)

\* C14: invoking the same cleanup function a second time is a no-op: it leaves the
\* active scope and the instances of every scope context unchanged, whatever scope
\* operations happened between the two invocations.
C14_SecondCleanupNoOp ==
    [][\A c \in handles :
           SecondCleanup(c) => /\ currentScopeContext' = currentScopeContext
                               /\ ctxInstances' = ctxInstances]_vars

\* the panic of body leaves the WithScope that created context c in this step
PanicLeavesWithScope(c) ==
    \E t \in Threads :
        /\ At(t, "WithScope", "cleanup")
        /\ Top(stack[t]).scopeCtx = c
        /\ WithScopeUnwind(t)

\* C15: WithScope(body) ends the scope it began when body panics: when the panic
\* leaves WithScope, the instances of the scope created for body have been cleared
\* and the scope that was active before the call (possibly none) is active again.
C15_WithScopePanicEndsScope ==
    [][\A c \in 1..scopeCounter :
           PanicLeavesWithScope(c) => /\ ctxInstances'[c] = EmptyMap
                                      /\ currentScopeContext' = previousScope[c]]_vars

\* the part of C15 that holds: the scope that was active before the call is active
\* again, and the scope created for body is cleared if it is still the active one
\* when the panic leaves
WithScopePanicEndsActiveScope ==
    [][\A c \in 1..scopeCounter :
           PanicLeavesWithScope(c) =>
               /\ currentScopeContext' = previousScope[c]
               /\ currentScopeContext = c => ctxInstances'[c] = EmptyMap]_vars

\* the instances held by the singleton store and by the scope contexts
StoredInstances ==
    {instances[k] : k \in DOMAIN instances}
        \cup UNION {{ctxInstances[c][k] : k \in DOMAIN ctxInstances[c]} :
                        c \in 1..scopeCounter}

\* the result of the call was built by a factory run for that call alone and is
\* held by no store
FreshResult(t, i) ==
    /\ ret[t][i].inst[1] = t
    /\ \A u \in Threads : \A j \in 1..Len(ret[u]) :
           (<<u, j>> # <<t, i>> /\ ret[u][j].kind = "value")
               => ret[u][j].inst # ret[t][i].inst
    /\ ret[t][i].inst \notin StoredInstances

\* a Scoped call that found no active scope returns from fn() in this step
NoScopeReturns ==
    \E t \in Threads :
        /\ At(t, "IOC", "fn")
        /\ Top(stack[t]).lt = Scoped
        /\ ~Top(stack[t]).direct
        /\ Top(stack[t]).scopeCtx = Nil
        /\ FnReturn(t)

\* C16: when no scope is active, IOC(f, Scoped) behaves like IOC(f, Transient): it
\* invokes f on every call, returns the fresh result, and stores nothing in any
\* scope context or in the singleton store.
C16_ScopedWithoutScopeIsTransient ==
    [][/\ NoScopeReturns => (instances' = instances /\ ctxInstances' = ctxInstances)
       /\ \A t \in Threads : \A i \in 1..Len(ret'[t]) :
              (/\ ret'[t][i].kind = "value"
               /\ ret'[t][i].lt = Scoped
               /\ ~ret'[t][i].direct
               /\ ret'[t][i].ctx = Nil)
              => FreshResult(t, i)']_vars

\* C16, its case: no scope was ever begun, a goroutine has resolved A as Scoped
\* twice and got two instances, and the singleton store is empty
C16_Witness ==
    /\ world = "scopes"
    /\ scopeCounter = 0
    /\ \E t \in Threads :
           /\ Len(ret[t]) = 2
           /\ ret[t][1].kind = "value" /\ ret[t][1].lt = Scoped /\ ret[t][1].ctx = Nil
           /\ ret[t][2].kind = "value" /\ ret[t][2].lt = Scoped /\ ret[t][2].ctx = Nil
           /\ ret[t][1].inst # ret[t][2].inst
    /\ instances = EmptyMap

\* C17: Transient freshness.  Every Transient call of IOC that returned has run the
\* factory once for itself and returned what that run built; the result is held by
\* no store, no other call (Transient, Singleton or Scoped, before or after)
\* returned the same instance.
C17_TransientFreshness ==
    \A t \in Threads : \A i \in 1..Len(ret[t]) :
        (ret[t][i].kind = "value" /\ ret[t][i].lt = Transient) => FreshResult(t, i)

\* C17, its case: a goroutine has resolved A as Transient and then, inside a scope,
\* as Scoped; the scope context holds the second instance only
C17_Witness ==
    /\ world = "scopes"
    /\ \E t \in Threads :
           /\ Len(ret[t]) = 2
           /\ ret[t][1].kind = "value" /\ ret[t][1].lt = Transient
           /\ ret[t][2].kind = "value" /\ ret[t][2].lt = Scoped /\ ret[t][2].ctx # Nil
           /\ ret[t][2].key = ret[t][1].key
           /\ ret[t][2].inst # ret[t][1].inst
           /\ ret[t][2].inst \in StoredInstances

\* goroutine t enters a Transient call of IOC in this step
TransientEnters(t) ==
    /\ Len(stack'[t]) = Len(stack[t]) + 1
    /\ Top(stack'[t]).op = "IOC"
    /\ Top(stack'[t]).lt = Transient

\* the Transient call on top of the stack of goroutine t takes a step
TransientActs(t) ==
    /\ stack[t] # <<>>
    /\ Top(stack[t]).op = "IOC"
    /\ Top(stack[t]).lt = Transient
    /\ stack'[t] # stack[t]

MismatchRead(t) ==
    /\ At(t, "IOC", "read")
    /\ Has(instances, Top(stack[t]).key)
    /\ TypeOfInstance(instances[Top(stack[t]).key], Top(stack[t]).key)
           # TypeOf(Top(stack[t]).key)
    /\ IOCRead(t)

FirstIndex(path, key) ==
    CHOOSE i \in 1..Len(path) :
        /\ path[i] = key
        /\ \A j \in 1..(i - 1) : path[j] # key

\* the keys of path from index from on, each as its cached type name or unknown(key)
RenderFrom(path, from, tys) ==
    [i \in 1..(Len(path) - from + 1) |->
        LET key == path[from + i - 1]
        IN  IF Has(tys, key) THEN tys[key] ELSE "unknown(" \o key \o ")"]

\* the IOC call of goroutine t that found its key on the path raises the panic in
\* this step
CyclePanic(t) ==
    /\ At(t, "IOC", "cyclerender")
    /\ InSeq(Top(stack[t]).key, Top(stack[t]).currentPath)
    /\ IOCCycleRender(t)

\* C20: when a cycle is detected, the trace in the panic message lists the keys of
\* the path of the goroutine from the first occurrence of the repeated key (the key
\* whose IOC call detected the cycle) to the end of the path, each as its cached
\* type name or as unknown(key); for A -> B -> A it starts at A and includes B.
C20_TraceFromRepeatedKey ==
    [][\A t \in Threads :
           CyclePanic(t) =>
               Top(ret'[t]).trace =
                   RenderFrom(Top(stack[t]).currentPath,
                              FirstIndex(Top(stack[t]).currentPath, Top(stack[t]).key),
                              types)]_vars

(* ----------------------- C21, C22: the locks --------------------------- *)

\* goroutine t is inside a factory that IOC or DirectIOC called
InFactory(t) ==
    /\ Inside(t, "fn")
    /\ Top(lstack[t]).op[1] \in {"IOC", "DirectIOC"}

\* C21: while a factory passed to IOC or DirectIOC runs, its goroutine holds
\* no lock of the container, and no goroutine ever asks for a lock it holds
\* itself: the operations a factory calls never block on their own caller.
C21_FactoryRunsUnlocked ==
    \A t \in Threads :
        /\ InFactory(t) => Held(t) = {}
        /\ Wanted(t) \cap Held(t) = {}

\* a factory of IOC has called ClearInstances, which holds its four locks
C21_Witness ==
    \E t \in Threads :
        /\ Len(lstack[t]) = 2
        /\ lstack[t][1].op[1] = "IOC"
        /\ lstack[t][2].op[1] = "ClearInstances"
        /\ {"mu", "paramNameCacheMutex", "directMutex", "scopeContextMutex"}
               \subseteq Held(t)

\* C22: under fair scheduling every call of a container operation returns
\* or panics, however the goroutines interleave (factories terminate).
C22_EveryCallReturns ==
    \A t \in Threads : (lstack[t] # <<>>) ~> (lstack[t] = <<>>)

\* a goroutine waits for a lock that another goroutine holds, which itself
\* waits for a second lock
C22_Witness ==
    \E t, u \in Threads :
        /\ t # u
        /\ Wanted(t) \cap Held(u) # {}
        /\ Wanted(u) # {}
        /\ Held(t) # {}

(* ------------------- C23: a stored instance stays ---------------------- *)

\* a step of ClearInstances that drops the singleton store
ClearInstancesRuns == resets' # resets

\* C23: once an instance is stored for key k, the slot of k holds that same
\* instance in every later state until ClearInstances runs: no step other
\* than ClearInstances replaces or removes it (the programs whose test code
\* writes into the store itself are left aside).
C23_StoredUntilReset ==
    [][(Mismatched(world) = {} /\ ~ClearInstancesRuns) =>
          \A k \in Keys :
              Has(instances, k) => Has(instances', k) /\ instances'[k] = instances[k]]_vars

(* -------------- C24: a cached key and the cycle check ------------------ *)

\* goroutine t enters a Singleton call of IOC for a key that is in the
\* singleton store, in this step
CachedSingletonEnters(t) ==
    /\ Len(stack'[t]) = Len(stack[t]) + 1
    /\ Top(stack'[t]).op = "IOC"
    /\ Top(stack'[t]).lt = Singleton
    /\ Has(instances, Top(stack'[t]).key)

\* the read-locked lookup of goroutine t finds the instance of its key, of the
\* type of its call, in this step
CachedRead(t) ==
    /\ At(t, "IOC", "read")
    /\ Has(instances, Top(stack[t]).key)
    /\ TypeOfInstance(instances[Top(stack[t]).key], Top(stack[t]).key)
           = TypeOf(Top(stack[t]).key)
    /\ IOCRead(t)

LinkedReentry(t) ==
    /\ Len(stack'[t]) = Len(stack[t]) + 1
    /\ Top(stack'[t]).op = "IOC"
    /\ Top(stack'[t]).lt \in {Singleton, Scoped}
    /\ stack[t] # <<>>
    /\ Top(stack[t]).op = "IOC"
    /\ Top(stack[t]).lt = Transient
    /\ InSeq(Top(stack'[t]).key, resolutionPathMap[t])

\* C25: Transient links do not hide a cycle. A Singleton or Scoped resolve of
\* a key that is on the path of the goroutine raises the circular dependency
\* panic when it is reached through Transient resolves, which push nothing;
\* and in the program A -> B (Transient) -> C (Transient) -> A every resolve
\* of A made with an empty path ends in that panic, raised at A.
C25_TransientLinksKeepCycle ==
    [][/\ \A t \in Threads :
              LinkedReentry(t) => Top(stack'[t]).pc = "cyclepath"
       /\ world = "links" =>
              \A r \in Results' :
                  r.p0 => r.kind = "panic" /\ r.msg = CycleMsg /\ r.at = "A"]_vars

\* C25, its case: inside a scope, IOC(A, Scoped) has pushed A, its factory has
\* gone through the Transient calls of B and C to the Singleton call of A, which
\* has raised the circular dependency panic; no Singleton call pushed anything
C25_Witness ==
    /\ world = "links"
    /\ resets = 0
    /\ invocations["A"] = 0
    /\ \E r \in Results :
           /\ r.kind = "panic"
           /\ r.msg = CycleMsg
           /\ r.key = "A"
           /\ r.lt = Scoped
           /\ r.at = "A"
           /\ r.p0

(* ----------------------- C26: DirectIOC and IOC ------------------------ *)

\* a Scoped call of goroutine t returns an instance in this step, to the caller,
\* while a scope context is active
ScopedReturnsInScope(t, direct) ==
    /\ Len(ret'[t]) = Len(ret[t]) + 1
    /\ Top(ret'[t]).kind = "value"
    /\ Top(ret'[t]).lt = Scoped
    /\ Top(ret'[t]).direct = direct
    /\ currentScopeContext # Nil

\* the active scope context holds, for the key of the call that has just
\* returned to goroutine t, the instance that call returned
ScopeHoldsResult(t) ==
    /\ Has(ctxInstances'[currentScopeContext], Top(ret'[t]).key)
    /\ ctxInstances'[currentScopeContext][Top(ret'[t]).key] = Top(ret'[t]).inst

\* what IOC does, in the program of one goroutine: the instance a Scoped call
\* returns inside a scope is the one the scope context holds for the key
IOCScopedUsesScope ==
    [][world = "direct" =>
          \A t \in Threads : ScopedReturnsInScope(t, FALSE) => ScopeHoldsResult(t)]_vars

\* C26: DirectIOC provides the same functionality as IOC: for every lifetime
\* and container state it returns what IOC would return and leaves the stores
\* as IOC would; so the instance a Scoped call of DirectIOC returns inside a
\* scope is the one the scope context holds for the key.
C26_DirectIOCLikeIOC ==
    [][world = "direct" =>
          \A t \in Threads : ScopedReturnsInScope(t, TRUE) => ScopeHoldsResult(t)]_vars

(* ------------------------ C27: GetInstanceCount ------------------------ *)

\* the IOC or DirectIOC call on top of the stack of goroutine t takes a step
CallActs(t) ==
    /\ stack[t] # <<>>
    /\ Top(stack[t]).op = "IOC"
    /\ stack'[t] # stack[t]

\* the call on top of the stack of goroutine t stores a new key in this step
StoresNewKey(t) ==
    /\ At(t, "IOC", "store")
    /\ Top(stack[t]).lt = Singleton
    /\ ~Has(instances, Top(stack[t]).key)

EndsActiveScope(c) ==
    /\ c \notin ended
    /\ c \in ended'
    /\ currentScopeContext = c

\* the Scoped calls of IOC that have returned an instance from a scope context
ScopedResults == {r \in Results : r.kind = "value" /\ r.lt = Scoped /\ ~r.direct /\ r.ctx # Nil}

\* C28: scopes nest as a stack when they end in LIFO order. A Scoped resolve
\* inside an inner scope never returns the instance of another scope; and when
\* the active scope ends, the scope that was active when it began is active
\* again, with its ID and with the instances it held, so that a Scoped resolve
\* the goroutine makes there returns the outer scope's original instance (a
\* context that was not cleaned in between returns to a goroutine resolving
\* alone in it the instance it returned before).
C28_ScopesNest ==
    [][/\ \A c \in 1..scopeCounter :
              EndsActiveScope(c) =>
                  /\ currentScopeContext' = previousScope[c]
                  /\ GetActiveScope' = IF previousScope[c] = Nil THEN <<>>
                                       ELSE ScopeID(previousScope[c])
                  /\ previousScope[c] # Nil =>
                         /\ ctxInstances'[previousScope[c]] = ctxInstances[previousScope[c]]
                         /\ ctxGen'[previousScope[c]] = ctxGen[previousScope[c]]
       /\ \A r1, r2 \in ScopedResults' :
              (r1.key = r2.key /\ r1.ctx # r2.ctx) => r1.inst # r2.inst
       /\ ScopedIdempotenceBetweenCleanups']_vars

\* C28, its case: a goroutine has begun scope 1, resolved A in it, begun scope 2
\* inside it and ended scope 2; scope 1 is active again and the next Scoped
\* resolve of A has returned the instance scope 1 held all along
C28_Witness ==
    /\ resets = 0
    /\ scopeCounter = 2
    /\ previousScope[2] = 1
    /\ ended = {2}
    /\ ctxGen = <<0, 1>>
    /\ currentScopeContext = 1
    /\ GetActiveScope = ScopeID(1)
    /\ \E t \in Threads :
           /\ Len(ret[t]) = 2
           /\ ret[t][1] \in ScopedResults
           /\ ret[t][2] \in ScopedResults
           /\ ret[t][1].ctx = 1
           /\ ret[t][2].ctx = 1
           /\ ret[t][1].inst = ret[t][2].inst
           /\ ctxInstances[1]["A"] = ret[t][2].inst

(* ----------------------------- C29: scope IDs -------------------------- *)

\* NewScopeContext allocates a context in this step
CreatesScope == Len(ctxInstances') = Len(ctxInstances) + 1

\* C29: every scope context gets an ID different from the ID of every context
\* created before it, whether it is nested in another scope, created by another
\* goroutine or created after ClearInstances: the counter the ID is built from
\* grows with every context and nothing else changes it.
C29_ScopeIDsUnique ==
    [][/\ CreatesScope =>
              /\ scopeCounter' = Len(ctxInstances')
              /\ \A c \in 1..Len(ctxInstances) : ScopeID(scopeCounter') # ScopeID(c)
              /\ GetActiveScope' = ScopeID(scopeCounter')
       /\ ~CreatesScope =>
              /\ scopeCounter' = scopeCounter
              /\ Len(ctxInstances') = Len(ctxInstances)]_vars

\* C29, its case: a scope was created, ClearInstances ran, and the scope created
\* after it is active under an ID that differs from the ID of the first
C29_Witness ==
    /\ resets >= 1
    /\ resetMark = 1
    /\ scopeCounter = 2
    /\ currentScopeContext = 2
    /\ GetActiveScope # <<>>
    /\ GetActiveScope # ScopeID(1)

(* --------------------- C30: cycles between types ----------------------- *)

\* C30: in the program of the cycle detection example (a Singleton resolve of
\* a function literal building ServiceA, whose factory resolves as Singleton a
\* literal building ServiceB, whose factory resolves as Transient another
\* literal building ServiceA) the resolve of the outer literal ends in the
\* circular dependency panic.
C30_TypeCycleCaught ==
    world = "literals" =>
        \A r \in Results :
            (r.key = "A" /\ r.p0) => r.kind = "panic" /\ r.msg = CycleMsg

(* ------------------- C33: the finalizer and its slot ------------------- *)

\* the finalizer registered for instance i under key k runs in this step
FinalizerRuns(k, i) ==
    /\ <<k, i>> \in finalizers
    /\ <<k, i>> \notin finalizers'

\* C33: the finalizer registered for a stored instance removes the slot of its
\* key only when the slot still holds that instance: a slot that holds a newer
\* instance, stored after ClearInstances, is the same after the finalizer ran
\* (the programs whose test code writes into the store itself are left aside).
C33_FinalizerOwnSlot ==
    [][\A f \in finalizers :
           (/\ FinalizerRuns(f[1], f[2])
            /\ Mismatched(world) = {}
            /\ Has(instances, f[1])
            /\ instances[f[1]] # f[2])
           => (Has(instances', f[1]) /\ instances'[f[1]] = instances[f[1]])]_vars

(* ----------- C35: the singleton store and the scope contexts ----------- *)

\* goroutine t takes a step of a call of IOC with lifetime lt in this step
StepOfIOC(t, lt) ==
    /\ stack[t] # <<>>
    /\ stack'[t] # stack[t]
    /\ Top(stack[t]).op = "IOC"
    /\ ~Top(stack[t]).direct
    /\ Top(stack[t]).lt = lt

\* the cleanup function of some scope context is invoked in this step
ScopeEnds == \E c \in handles : CleanupOf(c)

\* the values the calls of IOC with lifetime lt have returned
ValuesOf(lt) == {r.inst : r \in {x \in Results : x.kind = "value" /\ x.lt = lt /\ ~x.direct}}

\* C35: the singleton store and the scope contexts are disjoint stores. No
\* step of a Scoped call of IOC changes the singleton store, no step of a
\* Singleton call changes a scope context, the end of a scope leaves the
\* singleton store as it is, and no instance a Scoped call returned was
\* returned by a Singleton call or is held by the singleton store.
C35_DisjointStores ==
    [][/\ \A t \in Threads :
              /\ StepOfIOC(t, Scoped) =>
                     (instances' = instances /\ types' = types /\ scopes' = scopes)
              /\ StepOfIOC(t, Singleton) =>
                     (ctxInstances' = ctxInstances /\ ctxGen' = ctxGen)
       /\ ScopeEnds => (instances' = instances /\ types' = types /\ scopes' = scopes)
       /\ ValuesOf(Scoped)' \cap ValuesOf(Singleton)' = {}
       /\ \A k \in Keys :
              Has(instances', k) => instances'[k] \notin ValuesOf(Scoped)']_vars

\* C35, its case: inside scope 1 a goroutine has resolved A as Singleton and
\* as Scoped; the singleton store holds the first instance, scope 1 the
\* second, and the cleanup function of the scope has run and left the
\* singleton slot as it was
C35_Witness ==
    /\ world = "scopes"
    /\ resets = 0
    /\ scopeCounter = 1
    /\ ended = {1}
    /\ \E t \in Threads :
           /\ Len(ret[t]) = 2
           /\ ret[t][1].kind = "value" /\ ret[t][2].kind = "value"
           /\ ret[t][1].key = "A" /\ ret[t][2].key = "A"
           /\ {ret[t][1].lt, ret[t][2].lt} = {Singleton, Scoped}
           /\ \A i \in 1..2 : ret[t][i].lt = Scoped => ret[t][i].ctx = 1
           /\ ret[t][1].inst # ret[t][2].inst
           /\ Has(instances, "A")
           /\ instances["A"] \in {ret[t][1].inst, ret[t][2].inst}

(* -------------- C36: IOC and DirectIOC share one store ----------------- *)

\* the Singleton calls of IOC and of DirectIOC that began after the last
\* ClearInstances and have returned an instance for key k
SingletonValuesSinceReset(k) ==
    {r \in Results : /\ r.kind = "value"
                     /\ r.lt = Singleton
                     /\ r.key = k
                     /\ r.r0 = resets}

\* C36: IOC and DirectIOC share one singleton store. Once one of them has
\* stored an instance for a factory, every later Singleton call of either
\* function for that factory returns that instance: the Singleton calls of
\* both functions made for one factory since the last ClearInstances have all
\* returned the same instance (the programs whose test code writes into the
\* store itself are left aside).
C36_SharedSingletonStore ==
    Mismatched(world) = {} =>
        \A k \in Keys : \A r1, r2 \in SingletonValuesSinceReset(k) : r1.inst = r2.inst

(* ------------------ C37: the three maps of the store ------------------- *)

\* C37: the instance map, the type map and the lifetime map of the singleton
\* store have the same key set after every operation of the container, and
\* every lifetime recorded is Singleton (the programs whose test code writes
\* into the maps itself are left aside).
C37_StoreMapsAgree ==
    Mismatched(world) = {} =>
        /\ DOMAIN types = DOMAIN instances
        /\ DOMAIN scopes = DOMAIN instances
        /\ \A k \in DOMAIN scopes : scopes[k] = Singleton

\* C37, its case: after a ClearInstances, DirectIOC has stored an instance
\* for A in the three maps, and a finalizer has run
C37_Witness ==
    /\ world = "reuse"
    /\ resets = 1
    /\ DOMAIN instances = {"A"}
    /\ DOMAIN types = {"A"}
    /\ scopes["A"] = Singleton
    /\ finalizers = {}
    /\ stack[1] = <<>>
    /\ Len(ret[1]) = 3
    /\ ret[1][3].direct
    /\ ret[1][3].kind = "value"
    /\ ret[1][3].inst = instances["A"]
    /\ ret[1][3].inst # ret[1][2].inst

(* -------------------- C34: panics and the locks ------------------------ *)

\* goroutine t waits as a writer for the readers of a lock to leave
Announced(t) == {l \in Locks : lockP[l] = t}

\* C34: when a container operation panics (a cycle, a failed type assertion
\* on the read path or after the double check, a type that is not registered,
\* a panic of the factory), its goroutine holds no lock of the container and
\* waits for none at the moment the panic leaves the operation; a goroutine
\* that is in no operation holds no lock.
C34_PanicsReleaseLocks ==
    \A t \in Threads :
        (Inside(t, "panic") \/ lstack[t] = <<>>) =>
            (Held(t) = {} /\ Announced(t) = {})

\* C34, its case: the double check of IOC has failed under the write lock, the
\* deferred Unlock has run and the panic is about to leave IOC, while the
\* other goroutine is inside an operation of its own
C34_Witness ==
    \E t, u \in Threads :
        /\ t # u
        /\ Inside(t, "panic")
        /\ Top(lstack[t]).op = <<"IOC", Singleton>>
        /\ Script(Top(lstack[t]).op)[Top(lstack[t]).pc - 1] = Unlock("mu")
        /\ lstack[u] # <<>>
        /\ Held(u) # {}

(* ---------------- C32: InjectConstructor and its arguments ------------- *)

\* the calls of InjectConstructor that have returned or panicked
InjectResults == {r \in Results : IsInject(r)}

\* every argument resolved by the call is assignable to its parameter
ArgsFit(r) ==
    \A i \in 1..Len(r.args) : AssignableTo(r.args[i].type, Params[i].type)

\* a parameter of the call has an explicit dependency whose factory returns a
\* type that is not assignable to it
BadExplicit(r) ==
    \E i \in 1..Len(Params) :
        /\ getParamName(r.named, i) \in DOMAIN r.opts
        /\ ~AssignableTo(r.opts[getParamName(r.named, i)], Params[i].type)

\* a parameter of the call has no explicit dependency, the store holds no
\* instance of an assignable type and no factory of the options returns one
Unresolvable(r) ==
    \E i \in 1..Len(Params) :
        /\ getParamName(r.named, i) \notin DOMAIN r.opts
        /\ \A x \in StoredTypes : ~AssignableTo(x, Params[i].type)
        /\ \A n \in DOMAIN r.opts : ~AssignableTo(r.opts[n], Params[i].type)

\* goroutine t takes a step of InjectConstructor in this step
StepOfInject(t) ==
    /\ stack[t] # <<>>
    /\ IsInject(Top(stack[t]))
    /\ stack'[t] # stack[t]

RegistryResults == UNION {{ret[t][i] : i \in 1..Len(ret[t])} : t \in Threads}

\* C31: the registry keeps one entry per type.  Every call of TypeCount returns the
\* number of distinct types registered since the last ClearInstances, which is 0
\* when nothing was registered since, and every call of GetType[T] made after a
\* RegisterType of a T since the last ClearInstances returns the instance of T
\* registered last.
C31_RegistryPerType ==
    \A r \in RegistryResults :
        /\ r.op = "TypeCount" => r.count = r.distinct
        /\ (r.op = "GetType" /\ r.last # NoRegistered) =>
               /\ r.res.outcome = "value"
               /\ r.res.instance = r.last

====
